---------------------------- MODULE Spec2Model ----------------------------
(***************************************************************************)
(* MokTrading tobacco tax engine: StateTobaccoTax (models/tax_models.py)   *)
(* and TaxCalculator (utils/tax_calculator.py).                            *)
(*                                                                         *)
(* Money is Python's decimal.Decimal.  A Decimal is modelled as the record *)
(* [s, c, e] of its sign (0 or 1), its coefficient and the number of its   *)
(* fraction digits, value (-1)^s * c * 10^(-e); as in Python,              *)
(* multiplication adds the exponents and addition aligns to the longer     *)
(* fraction, so Decimal('2.000') * 3 is 6.000 and not 6.  Coefficients     *)
(* are unbounded naturals held as                                          *)
(* little-endian sequences of limbs below Base with no leading zero limb,  *)
(* because the products price * rate * quantity * sales_rate exceed 2^31.  *)
(* Every value the bounds below produce has fewer than 28 digits, so the   *)
(* default Decimal context never rounds.                                   *)
(***************************************************************************)
EXTENDS Integers, Sequences, FiniteSets, TLC

\* ------------------------------------------------------------------------
\* Unbounded naturals

Base == 10 ^ 4

RECURSIVE NatToBig(_)
NatToBig(n) == IF n = 0 THEN <<>> ELSE <<n % Base>> \o NatToBig(n \div Base)

RECURSIVE BigAddC(_, _, _)
BigAddC(a, b, carry) ==
    IF a = <<>> /\ b = <<>>
    THEN IF carry = 0 THEN <<>> ELSE <<carry>>
    ELSE LET x == (IF a = <<>> THEN 0 ELSE Head(a))
                  + (IF b = <<>> THEN 0 ELSE Head(b)) + carry
         IN  <<x % Base>> \o BigAddC(IF a = <<>> THEN <<>> ELSE Tail(a),
                                     IF b = <<>> THEN <<>> ELSE Tail(b),
                                     x \div Base)

BigAdd(a, b) == BigAddC(a, b, 0)

RECURSIVE BigMulSmallC(_, _, _)
BigMulSmallC(a, m, carry) ==
    IF a = <<>>
    THEN IF carry = 0 THEN <<>> ELSE <<carry>>
    ELSE LET x == Head(a) * m + carry
         IN  <<x % Base>> \o BigMulSmallC(Tail(a), m, x \div Base)

\* a * m for 0 <= m < Base
BigMulSmall(a, m) == IF m = 0 THEN <<>> ELSE BigMulSmallC(a, m, 0)

BigShift(a) == IF a = <<>> THEN <<>> ELSE <<0>> \o a

RECURSIVE BigMul(_, _)
BigMul(a, b) ==
    IF a = <<>> \/ b = <<>>
    THEN <<>>
    ELSE BigAdd(BigMulSmall(a, Head(b)), BigShift(BigMul(a, Tail(b))))

RECURSIVE BigTimes10(_, _)
BigTimes10(a, k) == IF k = 0 THEN a ELSE BigTimes10(BigMulSmall(a, 10), k - 1)

RECURSIVE BigLessFrom(_, _, _)
BigLessFrom(a, b, i) ==
    IF i = 0 THEN FALSE
    ELSE IF a[i] # b[i] THEN a[i] < b[i]
    ELSE BigLessFrom(a, b, i - 1)

BigLess(a, b) ==
    IF Len(a) # Len(b) THEN Len(a) < Len(b) ELSE BigLessFrom(a, b, Len(a))

\* a divided by the small number d, the remainder dropped; limbs are taken
\* from the most significant one down
RECURSIVE BigDivSmallR(_, _, _)
BigDivSmallR(a, d, rem) ==
    IF a = <<>> THEN <<>>
    ELSE LET x == rem * Base + a[Len(a)]
         IN  BigDivSmallR(SubSeq(a, 1, Len(a) - 1), d, x % d) \o <<x \div d>>

RECURSIVE BigStrip(_)
BigStrip(a) ==
    IF a = <<>> THEN <<>>
    ELSE IF a[Len(a)] = 0 THEN BigStrip(SubSeq(a, 1, Len(a) - 1))
    ELSE a

RECURSIVE BigSubB(_, _, _)
BigSubB(a, b, borrow) ==
    IF a = <<>> THEN <<>>
    ELSE LET x == Head(a) - (IF b = <<>> THEN 0 ELSE Head(b)) - borrow
         IN  <<IF x < 0 THEN x + Base ELSE x>>
             \o BigSubB(Tail(a), IF b = <<>> THEN <<>> ELSE Tail(b),
                        IF x < 0 THEN 1 ELSE 0)

\* a - b for a >= b
BigSub(a, b) == BigStrip(BigSubB(a, b, 0))

BigDivSmall(a, d) == BigStrip(BigDivSmallR(a, d, 0))

\* ------------------------------------------------------------------------
\* decimal.Decimal

Dec(coef, e) == [s |-> 0, c |-> NatToBig(coef), e |-> e]

MaxOf(x, y) == IF x < y THEN y ELSE x

\* the coefficient of x written with e fraction digits, e >= x.e
Aligned(x, e) == BigTimes10(x.c, e - x.e)

\* x + y: magnitudes add under a common sign and subtract under different
\* signs; an exact zero of different signs is +0 (ROUND_HALF_EVEN context)
DecAdd(x, y) ==
    LET e == MaxOf(x.e, y.e)
        a == Aligned(x, e)
        b == Aligned(y, e)
    IN  IF x.s = y.s THEN [s |-> x.s, c |-> BigAdd(a, b), e |-> e]
        ELSE IF a = b THEN [s |-> 0, c |-> <<>>, e |-> e]
        ELSE IF BigLess(a, b) THEN [s |-> y.s, c |-> BigSub(b, a), e |-> e]
        ELSE [s |-> x.s, c |-> BigSub(a, b), e |-> e]

DecMul(x, y) == [s |-> (x.s + y.s) % 2, c |-> BigMul(x.c, y.c), e |-> x.e + y.e]

\* x == y of Python: equality of values, whatever the exponents
DecEq(x, y) ==
    LET e == MaxOf(x.e, y.e)
    IN  /\ Aligned(x, e) = Aligned(y, e)
        /\ (x.s = y.s \/ x.c = <<>>)

DecLess(x, y) ==
    LET e == MaxOf(x.e, y.e)
        a == Aligned(x, e)
        b == Aligned(y, e)
    IN  IF a = <<>> /\ b = <<>> THEN FALSE
        ELSE IF x.s = 0 /\ y.s = 0 THEN BigLess(a, b)
        ELSE IF x.s = 1 /\ y.s = 1 THEN BigLess(b, a)
        ELSE x.s = 1

\* -x and x - y
DecNeg(x) == [x EXCEPT !.s = 1 - @]

DecSub(x, y) == DecAdd(x, DecNeg(y))

\* min(x, y) of Python: the first argument unless the second is smaller
DecMin(x, y) == IF DecLess(y, x) THEN y ELSE x

\* bool(x) of Python for a Decimal
DecTruthy(x) == x.c # <<>>

\* Decimal(str(n)) for an int n
DecOfInt(n) ==
    IF n < 0 THEN [s |-> 1, c |-> NatToBig(0 - n), e |-> 0]
    ELSE [s |-> 0, c |-> NatToBig(n), e |-> 0]

\* Python's None, and an empty dict: a value with an empty domain
None == <<>>

IsNone(x) == DOMAIN x = {}

\* ------------------------------------------------------------------------
\* StateTobaccoTax._load_tax_data

LoadTaxData ==
  ("AL" :> [cigarette_tax |-> Dec(675, 3),
            cigar_tax |-> [type |-> "per_unit", rate |-> Dec(405, 4)],
            vape_tax |-> None,
            sales_tax_applies |-> TRUE,
            sales_tax_rate |-> Dec(4, 2)]) @@
  ("AK" :> [cigarette_tax |-> Dec(2000, 3),
            cigar_tax |-> [type |-> "percentage", rate |-> Dec(75, 2)],
            vape_tax |-> None,
            sales_tax_applies |-> FALSE,
            sales_tax_rate |-> Dec(0, 2)]) @@
  ("AZ" :> [cigarette_tax |-> Dec(2000, 3),
            cigar_tax |-> [type |-> "per_unit", rate |-> Dec(218, 3)],
            vape_tax |-> None,
            sales_tax_applies |-> TRUE,
            sales_tax_rate |-> Dec(56, 3)]) @@
  ("AR" :> [cigarette_tax |-> Dec(1150, 3),
            cigar_tax |-> [type |-> "percentage", rate |-> Dec(68, 2), cap |-> Dec(50, 2)],
            vape_tax |-> None,
            sales_tax_applies |-> TRUE,
            sales_tax_rate |-> Dec(65, 3)]) @@
  ("CA" :> [cigarette_tax |-> Dec(2870, 3),
            cigar_tax |-> [type |-> "percentage", rate |-> Dec(5427, 4)],
            vape_tax |-> [type |-> "dual", wholesale |-> Dec(5632, 4), retail |-> Dec(125, 3)],
            sales_tax_applies |-> TRUE,
            sales_tax_rate |-> Dec(725, 4)]) @@
  ("CO" :> [cigarette_tax |-> Dec(1940, 3),
            cigar_tax |-> [type |-> "percentage", rate |-> Dec(56, 2)],
            vape_tax |-> [type |-> "percentage", rate |-> Dec(50, 2)],
            sales_tax_applies |-> TRUE,
            sales_tax_rate |-> Dec(29, 3)]) @@
  ("CT" :> [cigarette_tax |-> Dec(4350, 3),
            cigar_tax |-> [type |-> "percentage", rate |-> Dec(50, 2), cap |-> Dec(50, 2)],
            vape_tax |-> [type |-> "bifurcated", open |-> Dec(10, 2), closed |-> Dec(40, 2)],
            sales_tax_applies |-> TRUE,
            sales_tax_rate |-> Dec(635, 4)]) @@
  ("DE" :> [cigarette_tax |-> Dec(2100, 3),
            cigar_tax |-> [type |-> "percentage", rate |-> Dec(30, 2)],
            vape_tax |-> [type |-> "per_ml", rate |-> Dec(5, 2)],
            sales_tax_applies |-> FALSE,
            sales_tax_rate |-> Dec(0, 2)]) @@
  ("DC" :> [cigarette_tax |-> Dec(4500, 3),
            cigar_tax |-> [type |-> "none"],
            vape_tax |-> [type |-> "percentage", rate |-> Dec(79, 2)],
            sales_tax_applies |-> TRUE,
            sales_tax_rate |-> Dec(6, 2)]) @@
  ("FL" :> [cigarette_tax |-> Dec(1339, 3),
            cigar_tax |-> [type |-> "none"],
            vape_tax |-> None,
            sales_tax_applies |-> TRUE,
            sales_tax_rate |-> Dec(6, 2)]) @@
  ("GA" :> [cigarette_tax |-> Dec(370, 3),
            cigar_tax |-> [type |-> "percentage", rate |-> Dec(23, 2)],
            vape_tax |-> [type |-> "bifurcated", open |-> Dec(7, 2), closed |-> Dec(5, 2)],
            sales_tax_applies |-> TRUE,
            sales_tax_rate |-> Dec(4, 2)]) @@
  ("HI" :> [cigarette_tax |-> Dec(3200, 3),
            cigar_tax |-> [type |-> "percentage", rate |-> Dec(50, 2)],
            vape_tax |-> [type |-> "percentage", rate |-> Dec(70, 2)],
            sales_tax_applies |-> TRUE,
            sales_tax_rate |-> Dec(4, 2)]) @@
  ("ID" :> [cigarette_tax |-> Dec(570, 3),
            cigar_tax |-> [type |-> "percentage", rate |-> Dec(40, 2), cap |-> Dec(50, 2)],
            vape_tax |-> None,
            sales_tax_applies |-> TRUE,
            sales_tax_rate |-> Dec(6, 2)]) @@
  ("IL" :> [cigarette_tax |-> Dec(2980, 3),
            cigar_tax |-> [type |-> "percentage", rate |-> Dec(45, 2)],
            vape_tax |-> [type |-> "percentage", rate |-> Dec(15, 2)],
            sales_tax_applies |-> TRUE,
            sales_tax_rate |-> Dec(625, 4)]) @@
  ("IN" :> [cigarette_tax |-> Dec(995, 3),
            cigar_tax |-> [type |-> "percentage", rate |-> Dec(30, 2), cap |-> Dec(300, 2)],
            vape_tax |-> [type |-> "bifurcated", open |-> Dec(15, 2), closed |-> Dec(15, 2)],
            sales_tax_applies |-> TRUE,
            sales_tax_rate |-> Dec(7, 2)]) @@
  ("IA" :> [cigarette_tax |-> Dec(1360, 3),
            cigar_tax |-> [type |-> "percentage", rate |-> Dec(50, 2), cap |-> Dec(50, 2)],
            vape_tax |-> None,
            sales_tax_applies |-> TRUE,
            sales_tax_rate |-> Dec(6, 2)]) @@
  ("KS" :> [cigarette_tax |-> Dec(1290, 3),
            cigar_tax |-> [type |-> "percentage", rate |-> Dec(10, 2)],
            vape_tax |-> [type |-> "per_ml", rate |-> Dec(5, 2)],
            sales_tax_applies |-> TRUE,
            sales_tax_rate |-> Dec(65, 3)]) @@
  ("KY" :> [cigarette_tax |-> Dec(1100, 3),
            cigar_tax |-> [type |-> "percentage", rate |-> Dec(15, 2)],
            vape_tax |-> [type |-> "bifurcated", open |-> Dec(15, 2), closed |-> Dec(150, 2)],
            sales_tax_applies |-> TRUE,
            sales_tax_rate |-> Dec(6, 2)]) @@
  ("LA" :> [cigarette_tax |-> Dec(1080, 3),
            cigar_tax |-> [type |-> "percentage", rate |-> Dec(20, 2)],
            vape_tax |-> [type |-> "per_ml", rate |-> Dec(15, 2)],
            sales_tax_applies |-> TRUE,
            sales_tax_rate |-> Dec(445, 4)]) @@
  ("ME" :> [cigarette_tax |-> Dec(2000, 3),
            cigar_tax |-> [type |-> "percentage", rate |-> Dec(43, 2)],
            vape_tax |-> [type |-> "percentage", rate |-> Dec(43, 2)],
            sales_tax_applies |-> TRUE,
            sales_tax_rate |-> Dec(55, 3)]) @@
  ("MD" :> [cigarette_tax |-> Dec(3750, 3),
            cigar_tax |-> [type |-> "percentage", rate |-> Dec(15, 2)],
            vape_tax |-> [type |-> "bifurcated", open |-> Dec(12, 2), closed |-> Dec(60, 2)],
            sales_tax_applies |-> TRUE,
            sales_tax_rate |-> Dec(6, 2)]) @@
  ("MA" :> [cigarette_tax |-> Dec(3510, 3),
            cigar_tax |-> [type |-> "percentage", rate |-> Dec(40, 2)],
            vape_tax |-> [type |-> "percentage", rate |-> Dec(75, 2)],
            sales_tax_applies |-> TRUE,
            sales_tax_rate |-> Dec(625, 4)]) @@
  ("MI" :> [cigarette_tax |-> Dec(2000, 3),
            cigar_tax |-> [type |-> "percentage", rate |-> Dec(32, 2), cap |-> Dec(50, 2)],
            vape_tax |-> None,
            sales_tax_applies |-> TRUE,
            sales_tax_rate |-> Dec(6, 2)]) @@
  ("MN" :> [cigarette_tax |-> Dec(3040, 3),
            cigar_tax |-> [type |-> "percentage", rate |-> Dec(95, 2), cap |-> Dec(50, 2)],
            vape_tax |-> [type |-> "percentage", rate |-> Dec(95, 2)],
            sales_tax_applies |-> TRUE,
            sales_tax_rate |-> Dec(6875, 5)]) @@
  ("MS" :> [cigarette_tax |-> Dec(680, 3),
            cigar_tax |-> [type |-> "percentage", rate |-> Dec(15, 2)],
            vape_tax |-> None,
            sales_tax_applies |-> TRUE,
            sales_tax_rate |-> Dec(7, 2)]) @@
  ("MO" :> [cigarette_tax |-> Dec(170, 3),
            cigar_tax |-> [type |-> "percentage", rate |-> Dec(10, 2)],
            vape_tax |-> None,
            sales_tax_applies |-> TRUE,
            sales_tax_rate |-> Dec(4225, 5)]) @@
  ("MT" :> [cigarette_tax |-> Dec(1700, 3),
            cigar_tax |-> [type |-> "percentage", rate |-> Dec(50, 2), cap |-> Dec(35, 2)],
            vape_tax |-> None,
            sales_tax_applies |-> FALSE,
            sales_tax_rate |-> Dec(0, 2)]) @@
  ("NE" :> [cigarette_tax |-> Dec(640, 3),
            cigar_tax |-> [type |-> "percentage", rate |-> Dec(20, 2)],
            vape_tax |-> [type |-> "bifurcated", small |-> Dec(5, 2), large |-> Dec(10, 2)],
            sales_tax_applies |-> TRUE,
            sales_tax_rate |-> Dec(55, 3)]) @@
  ("NV" :> [cigarette_tax |-> Dec(1800, 3),
            cigar_tax |-> [type |-> "percentage", rate |-> Dec(30, 2)],
            vape_tax |-> [type |-> "percentage", rate |-> Dec(30, 2)],
            sales_tax_applies |-> TRUE,
            sales_tax_rate |-> Dec(685, 4)]) @@
  ("NH" :> [cigarette_tax |-> Dec(1780, 3),
            cigar_tax |-> [type |-> "none"],
            vape_tax |-> [type |-> "bifurcated", open |-> Dec(8, 2), closed |-> Dec(30, 2)],
            sales_tax_applies |-> FALSE,
            sales_tax_rate |-> Dec(0, 2)]) @@
  ("NJ" :> [cigarette_tax |-> Dec(2700, 3),
            cigar_tax |-> [type |-> "percentage", rate |-> Dec(30, 2)],
            vape_tax |-> [type |-> "bifurcated", open |-> Dec(10, 2), closed |-> Dec(10, 2)],
            sales_tax_applies |-> TRUE,
            sales_tax_rate |-> Dec(6625, 5)]) @@
  ("NM" :> [cigarette_tax |-> Dec(2000, 3),
            cigar_tax |-> [type |-> "percentage", rate |-> Dec(25, 2), cap |-> Dec(50, 2)],
            vape_tax |-> [type |-> "bifurcated", open |-> Dec(125, 3), closed |-> Dec(50, 2)],
            sales_tax_applies |-> TRUE,
            sales_tax_rate |-> Dec(5125, 5)]) @@
  ("NY" :> [cigarette_tax |-> Dec(5350, 3),
            cigar_tax |-> [type |-> "percentage", rate |-> Dec(75, 2)],
            vape_tax |-> [type |-> "retail", rate |-> Dec(20, 2)],
            sales_tax_applies |-> TRUE,
            sales_tax_rate |-> Dec(8, 2)]) @@
  ("NC" :> [cigarette_tax |-> Dec(450, 3),
            cigar_tax |-> [type |-> "percentage", rate |-> Dec(1285, 4)],
            vape_tax |-> [type |-> "per_ml", rate |-> Dec(5, 2)],
            sales_tax_applies |-> TRUE,
            sales_tax_rate |-> Dec(475, 4)]) @@
  ("ND" :> [cigarette_tax |-> Dec(440, 3),
            cigar_tax |-> [type |-> "percentage", rate |-> Dec(28, 2)],
            vape_tax |-> None,
            sales_tax_applies |-> TRUE,
            sales_tax_rate |-> Dec(5, 2)]) @@
  ("OH" :> [cigarette_tax |-> Dec(1600, 3),
            cigar_tax |-> [type |-> "percentage", rate |-> Dec(17, 2), cap |-> Dec(65, 2)],
            vape_tax |-> [type |-> "per_ml", rate |-> Dec(10, 2)],
            sales_tax_applies |-> TRUE,
            sales_tax_rate |-> Dec(575, 4)]) @@
  ("OK" :> [cigarette_tax |-> Dec(2030, 3),
            cigar_tax |-> [type |-> "per_unit", rate |-> Dec(12, 2)],
            vape_tax |-> None,
            sales_tax_applies |-> TRUE,
            sales_tax_rate |-> Dec(45, 3)]) @@
  ("OR" :> [cigarette_tax |-> Dec(3330, 3),
            cigar_tax |-> [type |-> "percentage", rate |-> Dec(65, 2), cap |-> Dec(100, 2)],
            vape_tax |-> [type |-> "percentage", rate |-> Dec(65, 2)],
            sales_tax_applies |-> FALSE,
            sales_tax_rate |-> Dec(0, 2)]) @@
  ("PA" :> [cigarette_tax |-> Dec(2600, 3),
            cigar_tax |-> [type |-> "none"],
            vape_tax |-> [type |-> "percentage", rate |-> Dec(40, 2)],
            sales_tax_applies |-> TRUE,
            sales_tax_rate |-> Dec(6, 2)]) @@
  ("RI" :> [cigarette_tax |-> Dec(4250, 3),
            cigar_tax |-> [type |-> "percentage", rate |-> Dec(80, 2), cap |-> Dec(50, 2)],
            vape_tax |-> None,
            sales_tax_applies |-> TRUE,
            sales_tax_rate |-> Dec(7, 2)]) @@
  ("SC" :> [cigarette_tax |-> Dec(570, 3),
            cigar_tax |-> [type |-> "percentage", rate |-> Dec(55, 3)],
            vape_tax |-> None,
            sales_tax_applies |-> TRUE,
            sales_tax_rate |-> Dec(6, 2)]) @@
  ("SD" :> [cigarette_tax |-> Dec(1530, 3),
            cigar_tax |-> [type |-> "percentage", rate |-> Dec(35, 2)],
            vape_tax |-> None,
            sales_tax_applies |-> TRUE,
            sales_tax_rate |-> Dec(45, 3)]) @@
  ("TN" :> [cigarette_tax |-> Dec(620, 3),
            cigar_tax |-> [type |-> "percentage", rate |-> Dec(66, 3)],
            vape_tax |-> None,
            sales_tax_applies |-> TRUE,
            sales_tax_rate |-> Dec(7, 2)]) @@
  ("TX" :> [cigarette_tax |-> Dec(1410, 3),
            cigar_tax |-> [type |-> "per_unit", rate |-> Dec(11, 3)],
            vape_tax |-> None,
            sales_tax_applies |-> TRUE,
            sales_tax_rate |-> Dec(625, 4)]) @@
  ("UT" :> [cigarette_tax |-> Dec(1700, 3),
            cigar_tax |-> [type |-> "percentage", rate |-> Dec(86, 2)],
            vape_tax |-> [type |-> "percentage", rate |-> Dec(56, 2)],
            sales_tax_applies |-> TRUE,
            sales_tax_rate |-> Dec(485, 4)]) @@
  ("VT" :> [cigarette_tax |-> Dec(3080, 3),
            cigar_tax |-> [type |-> "percentage", rate |-> Dec(92, 2), cap_low |-> Dec(200, 2), cap_high |-> Dec(400, 2)],
            vape_tax |-> [type |-> "percentage", rate |-> Dec(92, 2)],
            sales_tax_applies |-> TRUE,
            sales_tax_rate |-> Dec(6, 2)]) @@
  ("VA" :> [cigarette_tax |-> Dec(600, 3),
            cigar_tax |-> [type |-> "percentage", rate |-> Dec(20, 2)],
            vape_tax |-> [type |-> "per_ml", rate |-> Dec(66, 3)],
            sales_tax_applies |-> TRUE,
            sales_tax_rate |-> Dec(53, 3)]) @@
  ("WA" :> [cigarette_tax |-> Dec(3025, 3),
            cigar_tax |-> [type |-> "percentage", rate |-> Dec(95, 2), cap |-> Dec(65, 2)],
            vape_tax |-> [type |-> "bifurcated", open |-> Dec(9, 2), closed |-> Dec(27, 2)],
            sales_tax_applies |-> TRUE,
            sales_tax_rate |-> Dec(65, 3)]) @@
  ("WV" :> [cigarette_tax |-> Dec(1200, 3),
            cigar_tax |-> [type |-> "percentage", rate |-> Dec(12, 2)],
            vape_tax |-> [type |-> "per_ml", rate |-> Dec(75, 3)],
            sales_tax_applies |-> TRUE,
            sales_tax_rate |-> Dec(6, 2)]) @@
  ("WI" :> [cigarette_tax |-> Dec(2520, 3),
            cigar_tax |-> [type |-> "percentage", rate |-> Dec(71, 2), cap |-> Dec(50, 2)],
            vape_tax |-> [type |-> "per_ml", rate |-> Dec(5, 2)],
            sales_tax_applies |-> TRUE,
            sales_tax_rate |-> Dec(5, 2)]) @@
  ("WY" :> [cigarette_tax |-> Dec(600, 3),
            cigar_tax |-> [type |-> "percentage", rate |-> Dec(20, 2)],
            vape_tax |-> [type |-> "percentage", rate |-> Dec(15, 2)],
            sales_tax_applies |-> TRUE,
            sales_tax_rate |-> Dec(4, 2)])

\* ------------------------------------------------------------------------
\* Text: a str is the sequence of its characters

UpperCase ==
    ("A" :> "a") @@ ("B" :> "b") @@ ("C" :> "c") @@ ("D" :> "d") @@
    ("E" :> "e") @@ ("F" :> "f") @@ ("G" :> "g") @@ ("H" :> "h") @@
    ("I" :> "i") @@ ("J" :> "j") @@ ("K" :> "k") @@ ("L" :> "l") @@
    ("M" :> "m") @@ ("N" :> "n") @@ ("O" :> "o") @@ ("P" :> "p") @@
    ("Q" :> "q") @@ ("R" :> "r") @@ ("S" :> "s") @@ ("T" :> "t") @@
    ("U" :> "u") @@ ("V" :> "v") @@ ("W" :> "w") @@ ("X" :> "x") @@
    ("Y" :> "y") @@ ("Z" :> "z")

\* str.lower()
Lower(s) ==
    [i \in 1..Len(s) |-> IF s[i] \in DOMAIN UpperCase THEN UpperCase[s[i]] ELSE s[i]]

LowerCase == [l \in {UpperCase[u] : u \in DOMAIN UpperCase} |->
                 CHOOSE u \in DOMAIN UpperCase : UpperCase[u] = l]

\* str.upper()
Upper(s) ==
    [i \in 1..Len(s) |-> IF s[i] \in DOMAIN LowerCase THEN LowerCase[s[i]] ELSE s[i]]

\* the characters of s as one string, the form of the keys of tax_data
RECURSIVE StrOf(_)
StrOf(s) == IF s = <<>> THEN "" ELSE Head(s) \o StrOf(Tail(s))

\* whether s[i..] starts with w
HasAt(s, i, w) ==
    /\ i >= 1
    /\ i + Len(w) - 1 <= Len(s)
    /\ \A k \in 1..Len(w) : s[i + k - 1] = w[k]

\* w in s
Contains(s, w) == \E i \in 1..(Len(s) + 1) : HasAt(s, i, w)

Digits == {"0", "1", "2", "3", "4", "5", "6", "7", "8", "9"}

DigitValue ==
    ("0" :> 0) @@ ("1" :> 1) @@ ("2" :> 2) @@ ("3" :> 3) @@ ("4" :> 4) @@
    ("5" :> 5) @@ ("6" :> 6) @@ ("7" :> 7) @@ ("8" :> 8) @@ ("9" :> 9)

IsDigit(s, i) == i >= 1 /\ i <= Len(s) /\ s[i] \in Digits

\* the index after the run of digits that starts at i (\d+, greedy)
RECURSIVE DigitsEnd(_, _)
DigitsEnd(s, i) == IF IsDigit(s, i) THEN DigitsEnd(s, i + 1) ELSE i

\* the index after the white space that starts at i (\s*, greedy)
RECURSIVE SpaceEnd(_, _)
SpaceEnd(s, i) == IF i <= Len(s) /\ s[i] = " " THEN SpaceEnd(s, i + 1) ELSE i

\* Decimal(text) for text of the form digits or digits.digits
RECURSIVE DecimalOfStrFrom(_, _, _, _)
DecimalOfStrFrom(s, i, coef, frac) ==
    IF i > Len(s) THEN [s |-> 0, c |-> coef, e |-> IF frac < 0 THEN 0 ELSE frac]
    ELSE IF s[i] = "." THEN DecimalOfStrFrom(s, i + 1, coef, 0)
    ELSE DecimalOfStrFrom(s, i + 1,
                          BigAdd(BigMulSmall(coef, 10), NatToBig(DigitValue[s[i]])),
                          IF frac < 0 THEN frac ELSE frac + 1)

DecimalOfStr(s) == DecimalOfStrFrom(s, 1, <<>>, -1)

\* re.match of (\d+(?:\.\d+)?)\s*<unit> at position i: the index after group 1,
\* or 0 when the pattern does not match there.  A shorter run of digits or of
\* white space is always followed by a digit or a blank, which the rest of the
\* pattern cannot match, so the greedy choice is the only one to try.
MatchAt(s, i, unit) ==
    IF ~IsDigit(s, i) THEN 0
    ELSE LET j == DigitsEnd(s, i)
             k == IF j <= Len(s) /\ s[j] = "." /\ IsDigit(s, j + 1)
                  THEN DigitsEnd(s, j + 1) ELSE j
         IN  IF HasAt(s, SpaceEnd(s, k), unit) THEN k
             ELSE IF HasAt(s, SpaceEnd(s, j), unit) THEN j
             ELSE 0

\* re.search(pattern, text).group(1): the leftmost match, <<>> when there is none
RECURSIVE SearchFrom(_, _, _)
SearchFrom(s, i, unit) ==
    IF i > Len(s) THEN <<>>
    ELSE IF MatchAt(s, i, unit) # 0 THEN SubSeq(s, i, MatchAt(s, i, unit) - 1)
    ELSE SearchFrom(s, i + 1, unit)

Search(s, unit) == SearchFrom(s, 1, unit)

\* ------------------------------------------------------------------------
\* The keywords and the units of TaxCalculator

KwCigarette == <<"c", "i", "g", "a", "r", "e", "t", "t", "e">>

KwCigar == <<"c", "i", "g", "a", "r">>

KwVape == <<"v", "a", "p", "e">>

KwECig == <<"e", "-", "c", "i", "g">>

KwElectronic == <<"e", "l", "e", "c", "t", "r", "o", "n", "i", "c">>

KwVapor == <<"v", "a", "p", "o", "r">>

KwCartridge == <<"c", "a", "r", "t", "r", "i", "d", "g", "e">>

KwPod == <<"p", "o", "d">>

KwDisposable == <<"d", "i", "s", "p", "o", "s", "a", "b", "l", "e">>

UnitMl == <<"m", "l">>

UnitMilliliter == <<"m", "i", "l", "l", "i", "l", "i", "t", "e", "r">>

UnitMLUpper == <<"m", "L">>


\* ------------------------------------------------------------------------
\* Products (models/unified_models.py, Product): id, name, description, the
\* text str(product.price) of the Numeric(10, 2) price, and the category, None
\* when the product has none.
\* The first two are sample products of main.py with their descriptions cut
\* short; the others exercise the classifier and the volume extraction.

MarlboroGold ==
    [id |-> 1,
     name |-> <<"M", "a", "r", "l", "b", "o", "r", "o", " ", "G", "o", "l", "d">>,
     description |-> <<"P", "r", "e", "m", "i", "u", "m", " ", "l", "i", "g", "h", "t", " ", "c", "i", "g", "a", "r", "e", "t", "t", "e", "s">>,
     price |-> <<"1", "2", ".", "9", "9">>,
     category |-> [name |-> <<"C", "i", "g", "a", "r", "e", "t", "t", "e", "s">>]]

Montecristo ==
    [id |-> 2,
     name |-> <<"M", "o", "n", "t", "e", "c", "r", "i", "s", "t", "o", " ", "N", "o", ".", " ", "2">>,
     description |-> <<"P", "r", "e", "m", "i", "u", "m", " ", "t", "o", "r", "p", "e", "d", "o", " ", "c", "i", "g", "a", "r", "s">>,
     price |-> <<"5", "2", ".", "9", "9">>,
     category |-> [name |-> <<"C", "i", "g", "a", "r", "s">>]]

ELiquidPackVape ==
    [id |-> 3,
     name |-> <<"e", "-", "l", "i", "q", "u", "i", "d", " ", "1", "0", "-", "p", "a", "c", "k">>,
     description |-> <<>>,
     price |-> <<"1", "9", ".", "9", "9">>,
     category |-> [name |-> <<"V", "a", "p", "e", " ", "S", "u", "p", "p", "l", "i", "e", "s">>]]

ELiquidPackOther ==
    [id |-> 4,
     name |-> <<"e", "-", "l", "i", "q", "u", "i", "d", " ", "1", "0", "-", "p", "a", "c", "k">>,
     description |-> <<>>,
     price |-> <<"1", "9", ".", "9", "9">>,
     category |-> [name |-> <<"E", "-", "L", "i", "q", "u", "i", "d", "s">>]]

VapeJuice ==
    [id |-> 5,
     name |-> <<"V", "a", "p", "e", " ", "J", "u", "i", "c", "e", " ", "3", "0", "M", "L">>,
     description |-> <<>>,
     price |-> <<"8", ".", "0", "0">>,
     category |-> [name |-> <<"V", "a", "p", "e">>]]

VaporPod ==
    [id |-> 6,
     name |-> <<"V", "a", "p", "o", "r", " ", "P", "o", "d">>,
     description |-> <<"P", "r", "e", "f", "i", "l", "l", "e", "d">>,
     price |-> <<"1", "0", ".", "0", "0">>,
     category |-> None]

\* ------------------------------------------------------------------------
\* Bounds and input sets

\* longest cart
MaxCart == 2

\* largest quantity of a direct calculate_total_tax call
MaxQty == 4

\* callers of the shared tax_calculator instance; under Spec caller 1 makes
\* the calls and the others stay idle
NumCallers == 2

Callers == 1..NumCallers

Products ==
    {MarlboroGold, Montecristo, ELiquidPackVape, ELiquidPackOther, VapeJuice, VaporPod}

\* cart lines {'product': Product, 'quantity': int}
LineItems ==
    {[product |-> MarlboroGold, quantity |-> 1],
     [product |-> MarlboroGold, quantity |-> 2],
     [product |-> Montecristo, quantity |-> 3],
     [product |-> ELiquidPackVape, quantity |-> 1],
     [product |-> ELiquidPackOther, quantity |-> 2],
     [product |-> VapeJuice, quantity |-> 2],
     [product |-> VaporPod, quantity |-> 1]}

Carts == UNION {[1..n -> LineItems] : n \in 0..MaxCart}

\* carts and jurisdictions of callers that run at the same time
ConcCarts ==
    {<<>>,
     <<[product |-> VapeJuice, quantity |-> 2]>>,
     <<[product |-> MarlboroGold, quantity |-> 1],
       [product |-> Montecristo, quantity |-> 3]>>}

ConcStates == {"DE", "WI"}

\* jurisdiction codes a caller may pass: the 51 keys, an unknown code and a
\* known code in lower case
StateCodes == DOMAIN LoadTaxData \cup {"ZZ", "de"}

ProductTypes ==
    {"cigarettes", "cigars", "cigar", "vape", "e-cigarette", "vape_open",
     "vape_closed", "hookah"}

Prices == {Dec(0, 2), Dec(50, 2), Dec(8, 0), Dec(10, 0), Dec(1299, 2), Dec(100, 0)}

Volumes == {None, Dec(0, 0), Dec(20, 1), Dec(30, 0)}

\* the codes the /tax/states route lists (tax_api.py 95-101), as str values
StateList ==
    <<
      <<"A", "L">>, <<"A", "K">>, <<"A", "Z">>, <<"A", "R">>, <<"C", "A">>, <<"C", "O">>,
      <<"C", "T">>, <<"D", "E">>, <<"D", "C">>, <<"F", "L">>, <<"G", "A">>, <<"H", "I">>,
      <<"I", "D">>, <<"I", "L">>, <<"I", "N">>, <<"I", "A">>, <<"K", "S">>, <<"K", "Y">>,
      <<"L", "A">>, <<"M", "E">>, <<"M", "D">>, <<"M", "A">>, <<"M", "I">>, <<"M", "N">>,
      <<"M", "S">>, <<"M", "O">>, <<"M", "T">>, <<"N", "E">>, <<"N", "V">>, <<"N", "H">>,
      <<"N", "J">>, <<"N", "M">>, <<"N", "Y">>, <<"N", "C">>, <<"N", "D">>, <<"O", "H">>,
      <<"O", "K">>, <<"O", "R">>, <<"P", "A">>, <<"R", "I">>, <<"S", "C">>, <<"S", "D">>,
      <<"T", "N">>, <<"T", "X">>, <<"U", "T">>, <<"V", "T">>, <<"V", "A">>, <<"W", "A">>,
      <<"W", "V">>, <<"W", "I">>, <<"W", "Y">>
    >>

\* Category.name values: the seeded names and names with vape keywords
CategoryNames ==
    {<<"C", "i", "g", "a", "r", "e", "t", "t", "e", "s">>,
     <<"C", "i", "g", "a", "r", "s">>,
     <<"V", "a", "p", "e">>,
     <<"E", "-", "C", "i", "g", " ", "S", "u", "p", "p", "l", "i", "e", "s">>,
     <<"V", "a", "p", "o", "r", " ", "C", "a", "r", "t", "r", "i", "d", "g", "e", "s">>,
     <<"E", "l", "e", "c", "t", "r", "o", "n", "i", "c", "s">>,
     <<"A", "c", "c", "e", "s", "s", "o", "r", "i", "e", "s">>}

\* Product.name values, with one keyword, several keywords or none, in mixed case
ProductNames ==
    {<<"M", "a", "r", "l", "b", "o", "r", "o", " ", "G", "o", "l", "d">>,
     <<"E", "-", "C", "i", "g", "a", "r", "e", "t", "t", "e", " ", "S", "t", "a", "r", "t", "e", "r", " ", "K", "i", "t">>,
     <<"C", "i", "g", "a", "r", " ", "C", "u", "t", "t", "e", "r">>,
     <<"C", "i", "g", "a", "r", "i", "l", "l", "o", " ", "V", "a", "p", "e">>,
     <<"V", "A", "P", "E", " ", "P", "o", "d", " ", "K", "i", "t">>,
     <<"V", "a", "p", "o", "r", " ", "C", "a", "r", "t", "r", "i", "d", "g", "e", " ", "2", "M", "L">>,
     <<"E", "l", "e", "c", "t", "r", "o", "n", "i", "c", " ", "H", "o", "o", "k", "a", "h", " ", "D", "i", "s", "p", "o", "s", "a", "b", "l", "e">>,
     <<"P", "o", "d", " ", "R", "e", "f", "i", "l", "l">>,
     <<"e", "-", "l", "i", "q", "u", "i", "d", " ", "1", "0", "-", "p", "a", "c", "k">>,
     <<"R", "o", "l", "l", "i", "n", "g", " ", "P", "a", "p", "e", "r", "s">>}

\* Product.description values, with volumes written in the ways the patterns
\* look for, one or several, and without any
Descriptions ==
    {<<>>,
     <<"3", "0", "m", "l", " ", "b", "o", "t", "t", "l", "e">>,
     <<"5", " ", "m", "i", "l", "l", "i", "l", "i", "t", "e", "r", " ", "s", "a", "m", "p", "l", "e", ",", " ", "3", "0", " ", "m", "l", " ", "t", "o", "t", "a", "l">>,
     <<"2", ".", "5", " ", "m", "L", " ", "p", "o", "d">>,
     <<"D", "i", "s", "p", "o", "s", "a", "b", "l", "e", ",", " ", "1", "0", " ", "M", "i", "l", "l", "i", "l", "i", "t", "e", "r">>,
     <<"1", ".", "5", " ", " ", "m", "l", " ", "c", "a", "r", "t", "r", "i", "d", "g", "e", " ", "o", "r", " ", "3", "m", "l">>,
     <<"N", "o", ".", " ", "2", " ", "m", "i", "l", "d">>}

\* products the classifier is called on: every name in every category and in
\* none
ClassifierProducts ==
    {[id |-> 0, name |-> n, description |-> <<>>, price |-> <<"9", ".", "9", "9">>,
      category |-> c] :
        n \in ProductNames, c \in {[name |-> cn] : cn \in CategoryNames} \cup {None}}

\* products the volume is extracted from: every name with every description
VolumeProducts ==
    {[id |-> 0, name |-> n, description |-> d, price |-> <<"9", ".", "9", "9">>,
      category |-> None] : n \in ProductNames, d \in Descriptions}

\* vape products calculate_product_tax is called on: names with each of the
\* closed-system words and with none, descriptions with a volume, with a
\* volume of zero, with another closed-system word and without any
ClosedSystemProducts ==
    {[id |-> 0, name |-> n, description |-> d, price |-> <<"9", ".", "9", "9">>,
      category |-> [name |-> <<"V", "a", "p", "e">>]] :
        n \in {<<"S", "a", "l", "t", " ", "C", "a", "r", "t", "r", "i", "d", "g", "e">>,
               <<"M", "i", "n", "t", " ", "P", "O", "D", " ", "K", "i", "t">>,
               <<"I", "c", "e", " ", "D", "i", "s", "p", "o", "s", "a", "b", "l", "e">>,
               <<"B", "e", "r", "r", "y", " ", "J", "u", "i", "c", "e">>},
        d \in {<<>>,
               <<"3", "0", "m", "l", " ", "b", "o", "t", "t", "l", "e">>,
               <<"0", " ", "m", "l", " ", "d", "e", "m", "o", " ", "u", "n", "i", "t">>,
               <<"5", " ", "m", "i", "l", "l", "i", "l", "i", "t", "e", "r", " ", "t", "a", "n", "k">>,
               <<"R", "e", "p", "l", "a", "c", "e", "m", "e", "n", "t", " ", "p", "o", "d">>}}

\* jurisdictions of those calls: a per_ml rule, a bifurcated rule with a
\* closed sub-rate of 1.50, one with a closed sub-rate below 1, a percentage
\* rule and an unknown code
ClosedSystemCodes ==
    {<<"D", "E">>, <<"K", "Y">>, <<"C", "T">>, <<"M", "N">>, <<"Z", "Z">>}

\* spellings of a jurisdiction code a request may carry: each listed code in
\* upper, lower and mixed case, and codes that are in no list
CodeSpellings ==
    UNION {{StateList[i], Lower(StateList[i]),
            <<StateList[i][1], Lower(StateList[i])[2]>>} : i \in DOMAIN StateList}
    \cup {<<"Z", "Z">>, <<"z", "z">>, <<"P", "R">>, <<"D">>, <<"D", "E", "L">>}

\* jurisdiction codes of calls made one after another: one of each shape of
\* rule, a code in lower case and an unknown code
SeqCodes ==
    {<<"D", "E">>, <<"W", "I">>, <<"K", "Y">>, <<"C", "A">>, <<"N", "Y">>,
     <<"V", "T">>, <<"d", "e">>, <<"Z", "Z">>}

\* carts of those calls: empty, one line, a line of two units and the same
\* two units as two lines, lines of different products
SeqCarts ==
    {<<>>,
     <<[product |-> MarlboroGold, quantity |-> 2]>>,
     <<[product |-> MarlboroGold, quantity |-> 1],
       [product |-> MarlboroGold, quantity |-> 1]>>,
     <<[product |-> Montecristo, quantity |-> 3]>>,
     <<[product |-> VaporPod, quantity |-> 2]>>,
     <<[product |-> MarlboroGold, quantity |-> 1],
       [product |-> Montecristo, quantity |-> 3]>>,
     <<[product |-> ELiquidPackOther, quantity |-> 2],
       [product |-> VapeJuice, quantity |-> 2]>>,
     <<[product |-> VapeJuice, quantity |-> 2],
       [product |-> VaporPod, quantity |-> 1],
       [product |-> Montecristo, quantity |-> 3]>>}

\* the OrderItem rows of an order placed from cart
OrderItemsOf(cart) ==
    [k \in 1..Len(cart) |->
        [product |-> cart[k].product, quantity |-> cart[k].quantity,
         price |-> cart[k].product.price]]

\* JSON bodies of POST /tax/calculate: none, without items, with an unknown
\* product, without a state, without a quantity, and whole
CalculateRequests ==
    {None,
     [state |-> <<"W", "I">>],
     [state |-> <<"W", "I">>, items |-> <<>>],
     [state |-> <<"W", "I">>,
      items |-> <<[product_id |-> 1, quantity |-> 2], [product_id |-> 99, quantity |-> 1]>>],
     [items |-> <<[product_id |-> 1, quantity |-> 2]>>],
     [state |-> <<"C", "A">>, items |-> <<[product_id |-> 5]>>]}
    \cup {[state |-> st,
           items |-> <<[product_id |-> 1, quantity |-> 2],
                       [product_id |-> 2, quantity |-> 3]>>] : st \in SeqCodes}

\* calls made one after another on the one tax_calculator
SeqCalls ==
    {[fn |-> "calculate_cart_tax", cart_items |-> cart, shipping_state |-> st] :
        cart \in SeqCarts, st \in SeqCodes}
    \cup {[fn |-> "calculate_order_tax", order_items |-> OrderItemsOf(cart),
           shipping_state |-> st] : cart \in SeqCarts, st \in SeqCodes}
    \cup {[fn |-> "calculate_product_tax", product |-> p, state |-> st,
           quantity |-> q] : p \in Products, st \in SeqCodes, q \in {1, MaxQty}}
    \cup {[fn |-> "get_tax_rate_summary", state |-> st] : st \in SeqCodes}
    \cup {[fn |-> "POST /tax/calculate", data |-> d] : d \in CalculateRequests}

\* calls of the entry points other than calculate_cart_tax
EntryCalls ==
    {[fn |-> "get_state_info", state |-> st] : st \in CodeSpellings}
    \cup {[fn |-> "get_tax_rate_summary", state |-> st] : st \in CodeSpellings}
    \cup {[fn |-> "GET /tax/state/<state_code>", state_code |-> st] :
              st \in CodeSpellings}
    \cup {[fn |-> "GET /tax/states"]}
    \cup {[fn |-> "calculate_product_tax", product |-> p, state |-> st,
           quantity |-> 1] : p \in Products, st \in CodeSpellings}
    \cup {[fn |-> "calculate_product_tax", product |-> p, state |-> st,
           quantity |-> q] :
              p \in ClosedSystemProducts, st \in ClosedSystemCodes, q \in {1, 3}}
    \cup {[fn |-> "_get_product_type", product |-> p] : p \in ClassifierProducts}
    \cup {[fn |-> "_extract_volume_ml", product |-> p] : p \in VolumeProducts}

\* ------------------------------------------------------------------------
\* State

VARIABLES
    tax_data,           \* StateTobaccoTax.tax_data of the global tax_calculator
    pc,                 \* per caller: "idle", "ready", "loop" or "done"
    cart_items,         \* per caller: the cart_items argument
    shipping_state,     \* per caller: the shipping_state argument
    cart_tax_summary,   \* per caller: the local cart_tax_summary being built
    idx,                \* per caller: number of cart_items the for loop has taken
    returned,           \* per caller: the summaries calculate_cart_tax has returned
    tt_args,            \* arguments of a direct calculate_total_tax call, or None
    taxes,              \* what that call returned, or None
    call,               \* a pending call of another entry point, or None
    ret                 \* what that call returned, or None

vars ==
    <<tax_data, pc, cart_items, shipping_state, cart_tax_summary, idx, returned,
      tt_args, taxes, call, ret>>

cart_vars == <<pc, cart_items, shipping_state, cart_tax_summary, idx, returned>>

\* ------------------------------------------------------------------------
\* StateTobaccoTax

\* mutant: an unknown code falls back to the default state 'DE'
CalculateCigaretteTaxDefaultDE(state, quantity) ==
    IF state \notin DOMAIN tax_data
    THEN DecMul(tax_data["DE"].cigarette_tax, DecOfInt(quantity))
    ELSE DecMul(tax_data[state].cigarette_tax, DecOfInt(quantity))

\* mutant: the quantity is dropped, the tax of one pack is returned
CalculateCigaretteTaxNoQty(state, quantity) ==
    IF state \notin DOMAIN tax_data THEN Dec(0, 0)
    ELSE tax_data[state].cigarette_tax

CalculateCigaretteTax(state, quantity) ==
    IF state \notin DOMAIN tax_data THEN Dec(0, 0)
    ELSE DecMul(tax_data[state].cigarette_tax, DecOfInt(quantity))

\* mutant: the single cap limits the tax of the whole line, not of a unit
CigarTaxOfRuleCapOnLine(cigar_tax_info, wholesale_price, quantity) ==
    IF cigar_tax_info.type = "none" THEN Dec(0, 0)
    ELSE IF cigar_tax_info.type = "percentage" THEN
        LET tax_per_unit == DecMul(wholesale_price, cigar_tax_info.rate)
            line == DecMul(tax_per_unit, DecOfInt(quantity))
        IN  IF "cap" \in DOMAIN cigar_tax_info
            THEN DecMin(line, cigar_tax_info.cap)
            ELSE IF "cap_low" \in DOMAIN cigar_tax_info
                    /\ "cap_high" \in DOMAIN cigar_tax_info
            THEN IF DecLess(wholesale_price, Dec(10, 0))
                 THEN DecMul(DecMin(tax_per_unit, cigar_tax_info.cap_low),
                             DecOfInt(quantity))
                 ELSE DecMul(DecMin(tax_per_unit, cigar_tax_info.cap_high),
                             DecOfInt(quantity))
            ELSE line
    ELSE IF cigar_tax_info.type = "per_unit"
    THEN DecMul(cigar_tax_info.rate, DecOfInt(quantity))
    ELSE Dec(0, 0)

\* mutant: a price of exactly 10 still takes cap_low (<= for <)
CigarTaxOfRuleThresholdLE(cigar_tax_info, wholesale_price, quantity) ==
    IF cigar_tax_info.type = "none" THEN Dec(0, 0)
    ELSE IF cigar_tax_info.type = "percentage" THEN
        LET tax_per_unit == DecMul(wholesale_price, cigar_tax_info.rate)
            capped ==
                IF "cap" \in DOMAIN cigar_tax_info
                THEN DecMin(tax_per_unit, cigar_tax_info.cap)
                ELSE IF "cap_low" \in DOMAIN cigar_tax_info
                        /\ "cap_high" \in DOMAIN cigar_tax_info
                THEN IF ~DecLess(Dec(10, 0), wholesale_price)
                     THEN DecMin(tax_per_unit, cigar_tax_info.cap_low)
                     ELSE DecMin(tax_per_unit, cigar_tax_info.cap_high)
                ELSE tax_per_unit
        IN  DecMul(capped, DecOfInt(quantity))
    ELSE IF cigar_tax_info.type = "per_unit"
    THEN DecMul(cigar_tax_info.rate, DecOfInt(quantity))
    ELSE Dec(0, 0)

\* calculate_cigar_tax from the rule cigar_tax_info on
\* mutant: what a cigar's tax exceeds the cap by is given back, not cut off
CigarTaxOfRuleRefund(cigar_tax_info, wholesale_price, quantity) ==
    IF cigar_tax_info.type = "none" THEN Dec(0, 0)
    ELSE IF cigar_tax_info.type = "percentage" THEN
        LET tax_per_unit == DecMul(wholesale_price, cigar_tax_info.rate)
            capped ==
                IF "cap" \in DOMAIN cigar_tax_info
                THEN IF DecLess(cigar_tax_info.cap, tax_per_unit)
                     THEN DecSub(cigar_tax_info.cap, tax_per_unit)
                     ELSE tax_per_unit
                ELSE IF "cap_low" \in DOMAIN cigar_tax_info
                        /\ "cap_high" \in DOMAIN cigar_tax_info
                THEN IF DecLess(wholesale_price, Dec(10, 0))
                     THEN DecMin(tax_per_unit, cigar_tax_info.cap_low)
                     ELSE DecMin(tax_per_unit, cigar_tax_info.cap_high)
                ELSE tax_per_unit
        IN  DecMul(capped, DecOfInt(quantity))
    ELSE IF cigar_tax_info.type = "per_unit"
    THEN DecMul(cigar_tax_info.rate, DecOfInt(quantity))
    ELSE Dec(0, 0)

CigarTaxOfRule(cigar_tax_info, wholesale_price, quantity) ==
    IF cigar_tax_info.type = "none" THEN Dec(0, 0)
    ELSE IF cigar_tax_info.type = "percentage" THEN
        LET tax_per_unit == DecMul(wholesale_price, cigar_tax_info.rate)
            capped ==
                IF "cap" \in DOMAIN cigar_tax_info
                THEN DecMin(tax_per_unit, cigar_tax_info.cap)
                ELSE IF "cap_low" \in DOMAIN cigar_tax_info
                        /\ "cap_high" \in DOMAIN cigar_tax_info
                THEN IF DecLess(wholesale_price, Dec(10, 0))
                     THEN DecMin(tax_per_unit, cigar_tax_info.cap_low)
                     ELSE DecMin(tax_per_unit, cigar_tax_info.cap_high)
                ELSE tax_per_unit
        IN  DecMul(capped, DecOfInt(quantity))
    ELSE IF cigar_tax_info.type = "per_unit"
    THEN DecMul(cigar_tax_info.rate, DecOfInt(quantity))
    ELSE Dec(0, 0)

CalculateCigarTax(state, wholesale_price, quantity) ==
    IF state \notin DOMAIN tax_data THEN Dec(0, 0)
    ELSE CigarTaxOfRule(tax_data[state].cigar_tax, wholesale_price, quantity)

\* price and volume_ml are Decimals or None; "if price:" is false for both
\* None and zero
Truthy(x) == ~IsNone(x) /\ DecTruthy(x)

\* lines 441-447: the open sub-type of a bifurcated rule
VapeBifurcatedOpen(vape_tax_info, price, volume_ml, quantity) ==
    IF Truthy(price)
    THEN DecMul(DecMul(price, vape_tax_info.open), DecOfInt(quantity))
    ELSE IF Truthy(volume_ml)
    THEN DecMul(DecMul(volume_ml, vape_tax_info.open), DecOfInt(quantity))
    ELSE Dec(0, 0)

\* mutant: a closed sub-rate of 1 or more is applied per volume whenever a
\* volume is given, a volume of zero included
VapeBifurcatedClosedAnyVolume(vape_tax_info, price, volume_ml, quantity) ==
    IF DecLess(vape_tax_info.closed, Dec(1, 0)) THEN
        IF Truthy(price)
        THEN DecMul(DecMul(price, vape_tax_info.closed), DecOfInt(quantity))
        ELSE Dec(0, 0)
    ELSE IF ~IsNone(volume_ml)
    THEN DecMul(DecMul(volume_ml, vape_tax_info.closed), DecOfInt(quantity))
    ELSE DecMul(vape_tax_info.closed, DecOfInt(quantity))

\* lines 448-457: the closed sub-type of a bifurcated rule
VapeBifurcatedClosed(vape_tax_info, price, volume_ml, quantity) ==
    IF DecLess(vape_tax_info.closed, Dec(1, 0)) THEN
        IF Truthy(price)
        THEN DecMul(DecMul(price, vape_tax_info.closed), DecOfInt(quantity))
        ELSE Dec(0, 0)
    ELSE IF Truthy(volume_ml)
    THEN DecMul(DecMul(volume_ml, vape_tax_info.closed), DecOfInt(quantity))
    ELSE DecMul(vape_tax_info.closed, DecOfInt(quantity))

\* mutant: the retail part of a dual rule is left out
VapeDualWholesaleOnly(vape_tax_info, price, quantity) ==
    LET t0 == Dec(0, 0)
        t1 == IF Truthy(price) /\ "wholesale" \in DOMAIN vape_tax_info
              THEN DecAdd(t0, DecMul(price, vape_tax_info.wholesale))
              ELSE t0
    IN  DecMul(t1, DecOfInt(quantity))

\* lines 459-466: a dual rule
VapeDual(vape_tax_info, price, quantity) ==
    LET t0 == Dec(0, 0)
        t1 == IF Truthy(price) /\ "wholesale" \in DOMAIN vape_tax_info
              THEN DecAdd(t0, DecMul(price, vape_tax_info.wholesale))
              ELSE t0
        t2 == IF Truthy(price) /\ "retail" \in DOMAIN vape_tax_info
              THEN DecAdd(t1, DecMul(price, vape_tax_info.retail))
              ELSE t1
    IN  DecMul(t2, DecOfInt(quantity))

CalculateVapeTax(state, product_type, price, volume_ml, quantity) ==
    IF state \notin DOMAIN tax_data THEN Dec(0, 0)
    ELSE LET vape_tax_info == tax_data[state].vape_tax
             q == DecOfInt(quantity)
         IN
         IF IsNone(vape_tax_info) THEN Dec(0, 0)
         ELSE IF vape_tax_info.type = "percentage" THEN
             IF Truthy(price)
             THEN DecMul(DecMul(price, vape_tax_info.rate), q)
             ELSE Dec(0, 0)
         ELSE IF vape_tax_info.type = "per_ml" THEN
             IF Truthy(volume_ml)
             THEN DecMul(DecMul(volume_ml, vape_tax_info.rate), q)
             ELSE Dec(0, 0)
         ELSE IF vape_tax_info.type = "bifurcated" THEN
             IF product_type = "open" /\ "open" \in DOMAIN vape_tax_info
             THEN VapeBifurcatedOpen(vape_tax_info, price, volume_ml, quantity)
             ELSE IF product_type = "closed" /\ "closed" \in DOMAIN vape_tax_info
             THEN VapeBifurcatedClosed(vape_tax_info, price, volume_ml, quantity)
             ELSE Dec(0, 0)
         ELSE IF vape_tax_info.type = "dual"
         THEN VapeDual(vape_tax_info, price, quantity)
         ELSE Dec(0, 0)

CalculateSalesTax(state, taxable_amount) ==
    IF state \notin DOMAIN tax_data THEN Dec(0, 0)
    ELSE IF ~tax_data[state].sales_tax_applies THEN Dec(0, 0)
    ELSE DecMul(taxable_amount, tax_data[state].sales_tax_rate)

\* the excise branch of calculate_total_tax
\* mutant: a product type that is not recognised is taxed as a cigar
ExciseTaxDefaultCigar(state, product_type, base_price, quantity, volume_ml) ==
    IF product_type = "cigarettes"
    THEN CalculateCigaretteTax(state, quantity)
    ELSE IF product_type \in {"vape", "e-cigarette", "vape_open", "vape_closed"}
    THEN CalculateVapeTax(state,
                          IF product_type = "vape_open" THEN "open" ELSE "closed",
                          base_price, volume_ml, quantity)
    ELSE CalculateCigarTax(state, base_price, quantity)

ExciseTax(state, product_type, base_price, quantity, volume_ml) ==
    IF product_type = "cigarettes"
    THEN CalculateCigaretteTax(state, quantity)
    ELSE IF product_type \in {"cigars", "cigar"}
    THEN CalculateCigarTax(state, base_price, quantity)
    ELSE IF product_type \in {"vape", "e-cigarette", "vape_open", "vape_closed"}
    THEN CalculateVapeTax(state,
                          IF product_type = "vape_open" THEN "open" ELSE "closed",
                          base_price, volume_ml, quantity)
    ELSE Dec(0, 0)

\* mutant: sales tax on the base price alone, the excise left out of the base
CalculateTotalTaxNoTaxOnTax(state, product_type, base_price, quantity, volume_ml) ==
    LET excise_tax == ExciseTax(state, product_type, base_price, quantity, volume_ml)
        sales_tax == CalculateSalesTax(state, base_price)
    IN  [excise_tax |-> excise_tax,
         sales_tax |-> sales_tax,
         total_tax |-> DecAdd(excise_tax, sales_tax)]

CalculateTotalTax(state, product_type, base_price, quantity, volume_ml) ==
    LET excise_tax == ExciseTax(state, product_type, base_price, quantity, volume_ml)
        taxable_amount == DecAdd(base_price, excise_tax)
        sales_tax == CalculateSalesTax(state, taxable_amount)
    IN  [excise_tax |-> excise_tax,
         sales_tax |-> sales_tax,
         total_tax |-> DecAdd(excise_tax, sales_tax)]

\* ------------------------------------------------------------------------
\* TaxCalculator

AnyKeyword(s, words) == \E w \in words : Contains(s, w)

\* mutant: the vape keywords are looked for before "cigar"
GetProductTypeVapeFirst(product) ==
    LET category_lower ==
            IF IsNone(product.category) THEN <<>> ELSE Lower(product.category.name)
        name_lower == Lower(product.name)
    IN  IF Contains(category_lower, KwCigarette) \/ Contains(name_lower, KwCigarette)
        THEN "cigarettes"
        ELSE IF \E term \in {KwVape, KwECig, KwElectronic, KwVapor} :
                    Contains(category_lower, term) \/ Contains(name_lower, term)
        THEN IF AnyKeyword(name_lower, {KwCartridge, KwPod, KwDisposable})
             THEN "vape_closed"
             ELSE "vape_open"
        ELSE "cigars"

GetProductType(product) ==
    LET category_lower ==
            IF IsNone(product.category) THEN <<>> ELSE Lower(product.category.name)
        name_lower == Lower(product.name)
    IN  IF Contains(category_lower, KwCigarette) \/ Contains(name_lower, KwCigarette)
        THEN "cigarettes"
        ELSE IF Contains(category_lower, KwCigar) \/ Contains(name_lower, KwCigar)
        THEN "cigars"
        ELSE IF \E term \in {KwVape, KwECig, KwElectronic, KwVapor} :
                    Contains(category_lower, term) \/ Contains(name_lower, term)
        THEN IF AnyKeyword(name_lower, {KwCartridge, KwPod, KwDisposable})
             THEN "vape_closed"
             ELSE "vape_open"
        ELSE "cigars"

\* f"{product.name} {product.description or ''}".lower()
ProductText(product) == Lower(product.name \o <<" ">> \o product.description)

\* mutant: a product whose text gives no volume gets the cartridge default
ExtractVolumeMlAlwaysDefault(product) ==
    LET text == ProductText(product)
    IN  IF Search(text, UnitMl) # <<>> THEN DecimalOfStr(Search(text, UnitMl))
        ELSE IF Search(text, UnitMilliliter) # <<>>
        THEN DecimalOfStr(Search(text, UnitMilliliter))
        ELSE IF Search(text, UnitMLUpper) # <<>>
        THEN DecimalOfStr(Search(text, UnitMLUpper))
        ELSE IF Contains(text, KwDisposable) THEN Dec(20, 1)
        ELSE Dec(10, 1)

\* mutant: the milliliter pattern is tried before the ml pattern
ExtractVolumeMlMilliliterFirst(product) ==
    LET text == ProductText(product)
    IN  IF Search(text, UnitMilliliter) # <<>>
        THEN DecimalOfStr(Search(text, UnitMilliliter))
        ELSE IF Search(text, UnitMl) # <<>> THEN DecimalOfStr(Search(text, UnitMl))
        ELSE IF Search(text, UnitMLUpper) # <<>>
        THEN DecimalOfStr(Search(text, UnitMLUpper))
        ELSE IF Contains(text, KwCartridge) \/ Contains(text, KwPod) THEN Dec(10, 1)
        ELSE IF Contains(text, KwDisposable) THEN Dec(20, 1)
        ELSE None

\* mutant: a product whose text gives no volume gets none
ExtractVolumeMlNoDefault(product) ==
    LET text == ProductText(product)
    IN  IF Search(text, UnitMl) # <<>> THEN DecimalOfStr(Search(text, UnitMl))
        ELSE IF Search(text, UnitMilliliter) # <<>>
        THEN DecimalOfStr(Search(text, UnitMilliliter))
        ELSE IF Search(text, UnitMLUpper) # <<>>
        THEN DecimalOfStr(Search(text, UnitMLUpper))
        ELSE None

\* _extract_volume_ml, lines 136-164
ExtractVolumeMl(product) ==
    LET text == ProductText(product)
    IN  IF Search(text, UnitMl) # <<>> THEN DecimalOfStr(Search(text, UnitMl))
        ELSE IF Search(text, UnitMilliliter) # <<>>
        THEN DecimalOfStr(Search(text, UnitMilliliter))
        ELSE IF Search(text, UnitMLUpper) # <<>>
        THEN DecimalOfStr(Search(text, UnitMLUpper))
        ELSE IF Contains(text, KwCartridge) \/ Contains(text, KwPod) THEN Dec(10, 1)
        ELSE IF Contains(text, KwDisposable) THEN Dec(20, 1)
        ELSE None

\* mutant: price_with_tax is the price of the whole line with tax
CalculateProductTaxLinePrice(product, state, quantity) ==
    LET product_type == GetProductType(product)
        base_price == DecimalOfStr(product.price)
        volume_ml == ExtractVolumeMl(product)
        tax_breakdown ==
            CalculateTotalTax(state, product_type, base_price, quantity, volume_ml)
    IN  [excise_tax |-> tax_breakdown.excise_tax,
         sales_tax |-> tax_breakdown.sales_tax,
         total_tax |-> tax_breakdown.total_tax,
         product_id |-> product.id,
         product_name |-> product.name,
         product_type |-> product_type,
         base_price |-> base_price,
         quantity |-> quantity,
         state |-> state,
         price_with_tax |-> DecAdd(DecMul(base_price, DecOfInt(quantity)),
                                   tax_breakdown.total_tax)]

\* calculate_product_tax, lines 17-51
CalculateProductTax(product, state, quantity) ==
    LET product_type == GetProductType(product)
        base_price == DecimalOfStr(product.price)
        volume_ml == ExtractVolumeMl(product)
        tax_breakdown ==
            CalculateTotalTax(state, product_type, base_price, quantity, volume_ml)
    IN  [excise_tax |-> tax_breakdown.excise_tax,
         sales_tax |-> tax_breakdown.sales_tax,
         total_tax |-> tax_breakdown.total_tax,
         product_id |-> product.id,
         product_name |-> product.name,
         product_type |-> product_type,
         base_price |-> base_price,
         quantity |-> quantity,
         state |-> state,
         price_with_tax |-> DecAdd(base_price, tax_breakdown.total_tax)]

\* mutant: the subtotal starts at Decimal('1')
NewCartTaxSummarySubtotalOne(state) ==
    [items |-> <<>>,
     subtotal |-> Dec(1, 0),
     total_excise_tax |-> Dec(0, 0),
     total_sales_tax |-> Dec(0, 0),
     total_tax |-> Dec(0, 0),
     grand_total |-> Dec(0, 0),
     state |-> state]

\* the dict calculate_cart_tax starts from
NewCartTaxSummary(state) ==
    [items |-> <<>>,
     subtotal |-> Dec(0, 0),
     total_excise_tax |-> Dec(0, 0),
     total_sales_tax |-> Dec(0, 0),
     total_tax |-> Dec(0, 0),
     grand_total |-> Dec(0, 0),
     state |-> state]

\* mutant: total_tax accumulates the sales tax only
AddItemTaxSalesOnly(summary, item_tax) ==
    [summary EXCEPT
        !.items = Append(@, item_tax),
        !.subtotal = DecAdd(@, item_tax.base_price),
        !.total_excise_tax = DecAdd(@, item_tax.excise_tax),
        !.total_sales_tax = DecAdd(@, item_tax.sales_tax),
        !.total_tax = DecAdd(@, item_tax.sales_tax)]

\* mutant: the breakdown is inserted at the front of the items list
AddItemTaxPrepend(summary, item_tax) ==
    [summary EXCEPT
        !.items = <<item_tax>> \o @,
        !.subtotal = DecAdd(@, item_tax.base_price),
        !.total_excise_tax = DecAdd(@, item_tax.excise_tax),
        !.total_sales_tax = DecAdd(@, item_tax.sales_tax),
        !.total_tax = DecAdd(@, item_tax.total_tax)]

\* mutant: a breakdown without tax is added to the sums and not appended
AddItemTaxSkipUntaxed(summary, item_tax) ==
    [summary EXCEPT
        !.items = IF item_tax.total_tax.c = <<>> THEN @ ELSE Append(@, item_tax),
        !.subtotal = DecAdd(@, item_tax.base_price),
        !.total_excise_tax = DecAdd(@, item_tax.excise_tax),
        !.total_sales_tax = DecAdd(@, item_tax.sales_tax),
        !.total_tax = DecAdd(@, item_tax.total_tax)]

\* mutant: the excise of a line replaces the running excise, not adds to it
AddItemTaxLastExcise(summary, item_tax) ==
    [summary EXCEPT
        !.items = Append(@, item_tax),
        !.subtotal = DecAdd(@, item_tax.base_price),
        !.total_excise_tax = item_tax.excise_tax,
        !.total_sales_tax = DecAdd(@, item_tax.sales_tax),
        !.total_tax = DecAdd(@, item_tax.total_tax)]

\* the body of the for loop of calculate_cart_tax
AddItemTax(summary, item_tax) ==
    [summary EXCEPT
        !.items = Append(@, item_tax),
        !.subtotal = DecAdd(@, item_tax.base_price),
        !.total_excise_tax = DecAdd(@, item_tax.excise_tax),
        !.total_sales_tax = DecAdd(@, item_tax.sales_tax),
        !.total_tax = DecAdd(@, item_tax.total_tax)]

\* mutant: the grand total is converted to a float before it is returned
GrandTotalFloat(summary) ==
    [float |-> DecAdd(summary.subtotal, summary.total_tax)]

\* line 82: subtotal + total_tax
GrandTotal(summary) == DecAdd(summary.subtotal, summary.total_tax)

\* lines 53-84 as a whole: the summary one invocation of calculate_cart_tax
\* builds when nothing else touches its locals
RECURSIVE CartTaxLoop(_, _, _, _)
CartTaxLoop(summary, cart, state, i) ==
    IF i > Len(cart) THEN summary
    ELSE CartTaxLoop(AddItemTax(summary,
                         CalculateProductTax(cart[i].product, state, cart[i].quantity)),
                     cart, state, i + 1)

\* lines 82-84: the summary with its grand_total
WithGrandTotal(summary) == [summary EXCEPT !.grand_total = GrandTotal(summary)]

CalculateCartTax(cart, state) ==
    WithGrandTotal(CartTaxLoop(NewCartTaxSummary(state), cart, state, 1))

\* ------------------------------------------------------------------------
\* Jurisdiction information (tax_models.py 510-529, tax_calculator.py 97-193)

\* {}
EmptyDict == <<>>

\* mutant: an absent code falls back to the Delaware entry
GetStateInfoDefaultDE(state) ==
    IF state \in DOMAIN tax_data THEN tax_data[state] ELSE tax_data["DE"]

\* self.tax_data.get(state, {})
GetStateInfo(state) ==
    IF state \in DOMAIN tax_data THEN tax_data[state] ELSE EmptyDict

RequiresWholesalerLicense(state) == state \notin {"DE", "MT", "NH", "OR"}

GetFilingRequirements(state) ==
    [frequency |-> "Monthly",
     due_date |-> "20th of following month",
     registration_required |-> IF RequiresWholesalerLicense(state) THEN "Yes" ELSE "No",
     bond_required |-> "Varies by state",
     notes |-> "Consult state tobacco tax authority for specific requirements"]

\* float(x) for a Decimal x.  Binary floating point is kept symbolic: the
\* double nearest to a decimal is named by the digits of that decimal without
\* its trailing zeros (float(Decimal('2.100')) is float(Decimal('2.1'))), a
\* product of doubles by its factors and a formatted double by the format.
RECURSIVE DecNormalize(_)
DecNormalize(x) ==
    IF x.c = <<>> THEN [x EXCEPT !.e = 0]
    ELSE IF x.e > 0 /\ x.c[1] % 10 = 0
         THEN DecNormalize([x EXCEPT !.c = BigDivSmall(x.c, 10), !.e = x.e - 1])
    ELSE x

Float(x) == IF "float" \in DOMAIN x THEN x ELSE [float |-> DecNormalize(x)]

FloatTimes(f, n) == [float_product |-> <<f, n>>]

FloatFormat(f, digits) == [format |-> f, precision |-> digits]

\* _format_tax_info, lines 166-193
FormatTaxInfo(tax_info) ==
    IF IsNone(tax_info) \/ tax_info.type = "none"
    THEN [type |-> "none", description |-> <<"No tax">>]
    ELSE IF tax_info.type = "percentage"
    THEN LET rate_percent == FloatTimes(Float(tax_info.rate), 100)
             desc == <<FloatFormat(rate_percent, 2), "% of wholesale price">>
                     \o (IF "cap" \in DOMAIN tax_info
                         THEN <<" (capped at $", FloatFormat(Float(tax_info.cap), 2), ")">>
                         ELSE <<>>)
         IN  [type |-> "percentage", rate |-> rate_percent, description |-> desc]
    ELSE IF tax_info.type = "per_unit"
    THEN LET rate == Float(tax_info.rate)
         IN  [type |-> "per_unit", rate |-> rate,
              description |-> <<"$", FloatFormat(rate, 3), " per unit">>]
    ELSE IF tax_info.type = "per_ml"
    THEN LET rate == Float(tax_info.rate)
         IN  [type |-> "per_ml", rate |-> rate,
              description |-> <<"$", FloatFormat(rate, 3), " per mL">>]
    ELSE IF tax_info.type = "bifurcated"
    THEN [type |-> "bifurcated",
          description |-> <<"Different rates for open/closed systems">>]
    ELSE [type |-> "complex",
          description |-> <<"Complex tax structure - see details">>]

\* mutant: a jurisdiction whose vape rule has none of the listed types is
\* reported as not found
GetTaxRateSummaryComplexNotFound(state) ==
    LET state_info == GetStateInfo(state)
    IN  IF state_info = EmptyDict
           \/ FormatTaxInfo(state_info.vape_tax).type = "complex"
        THEN [error |-> "State " \o state \o " not found"]
        ELSE [state |-> state,
              cigarette_tax_per_pack |-> Float(state_info.cigarette_tax),
              cigar_tax |-> FormatTaxInfo(state_info.cigar_tax),
              vape_tax |-> FormatTaxInfo(state_info.vape_tax),
              sales_tax_applies |-> state_info.sales_tax_applies,
              sales_tax_rate |-> IF state_info.sales_tax_applies
                                 THEN Float(state_info.sales_tax_rate) ELSE 0,
              wholesaler_license_required |-> RequiresWholesalerLicense(state),
              filing_requirements |-> GetFilingRequirements(state)]

\* get_tax_rate_summary, lines 97-115
GetTaxRateSummary(state) ==
    LET state_info == GetStateInfo(state)
    IN  IF state_info = EmptyDict
        THEN [error |-> "State " \o state \o " not found"]
        ELSE [state |-> state,
              cigarette_tax_per_pack |-> Float(state_info.cigarette_tax),
              cigar_tax |-> FormatTaxInfo(state_info.cigar_tax),
              vape_tax |-> FormatTaxInfo(state_info.vape_tax),
              sales_tax_applies |-> state_info.sales_tax_applies,
              sales_tax_rate |-> IF state_info.sales_tax_applies
                                 THEN Float(state_info.sales_tax_rate) ELSE 0,
              wholesaler_license_required |-> RequiresWholesalerLicense(state),
              filing_requirements |-> GetFilingRequirements(state)]

\* GET /tax/state/<state_code>, tax_api.py 76-89: the response as
\* (status, body)
GetStateTaxInfoRoute(state_code) ==
    LET code == StrOf(Upper(state_code))
        tax_info == GetTaxRateSummary(code)
    IN  IF "error" \in DOMAIN tax_info
        THEN [status |-> 404, body |-> tax_info]
        ELSE [status |-> 200, body |-> tax_info]

\* calculate_order_tax, lines 86-95
CalculateOrderTax(order_items, state) ==
    CalculateCartTax([k \in 1..Len(order_items) |->
                         [product |-> order_items[k].product,
                          quantity |-> order_items[k].quantity]],
                     state)

\* Product.query.get(product_id): the product of that id, None when there is
\* none
ProductById(product_id) ==
    IF \E p \in Products : p.id = product_id
    THEN CHOOSE p \in Products : p.id = product_id
    ELSE None

\* lines 60-69 of tax_api.py: one item of the response
ItemTaxToJson(item_tax) ==
    [product_id |-> item_tax.product_id,
     product_name |-> item_tax.product_name,
     product_type |-> item_tax.product_type,
     base_price |-> Float(item_tax.base_price),
     quantity |-> item_tax.quantity,
     excise_tax |-> Float(item_tax.excise_tax),
     sales_tax |-> Float(item_tax.sales_tax),
     total_tax |-> Float(item_tax.total_tax),
     price_with_tax |-> Float(item_tax.price_with_tax)]

\* lines 47-69 of tax_api.py: the summary with every Decimal as a float
SummaryToJson(state, tax_summary) ==
    [state |-> state,
     subtotal |-> Float(tax_summary.subtotal),
     total_excise_tax |-> Float(tax_summary.total_excise_tax),
     total_sales_tax |-> Float(tax_summary.total_sales_tax),
     total_tax |-> Float(tax_summary.total_tax),
     grand_total |-> Float(tax_summary.grand_total),
     items |-> [k \in 1..Len(tax_summary.items) |-> ItemTaxToJson(tax_summary.items[k])]]

\* lines 29-42 of tax_api.py: the cart of the items of the request
CartOfItems(items) ==
    [k \in 1..Len(items) |->
        [product |-> ProductById(items[k].product_id),
         quantity |-> IF "quantity" \in DOMAIN items[k] THEN items[k].quantity ELSE 1]]

\* POST /tax/calculate, tax_api.py 14-74: the response as (status, body) for
\* the JSON body data of the request
CalculateTaxRoute(data) ==
    IF IsNone(data)
    THEN [status |-> 400, body |-> [error |-> <<"No data provided">>]]
    ELSE LET state == IF "state" \in DOMAIN data THEN StrOf(data.state) ELSE "DE"
             items == IF "items" \in DOMAIN data THEN data.items ELSE <<>>
             missing == {k \in 1..Len(items) : IsNone(ProductById(items[k].product_id))}
         IN  IF items = <<>>
             THEN [status |-> 400, body |-> [error |-> <<"No items provided">>]]
             ELSE IF missing # {}
             THEN LET k == CHOOSE k \in missing : \A j \in missing : k <= j
                  IN  [status |-> 404,
                       body |-> [error |-> <<"Product ", items[k].product_id,
                                             " not found">>]]
             ELSE [status |-> 200,
                   body |-> SummaryToJson(state,
                                CalculateCartTax(CartOfItems(items), state))]

\* ------------------------------------------------------------------------
\* Actions: one invocation of calculate_cart_tax, an item at a time

\* mutant: the summary is kept on the instance and only created by the first
\* call, so a later call goes on from the sums of the one before
BeginCartTaxKeep(c) ==
    /\ pc[c] = "ready"
    /\ cart_tax_summary' =
           [cart_tax_summary EXCEPT
               ![c] = IF returned[c] = <<>>
                      THEN NewCartTaxSummary(shipping_state[c]) ELSE @]
    /\ idx' = [idx EXCEPT ![c] = 0]
    /\ pc' = [pc EXCEPT ![c] = "loop"]
    /\ UNCHANGED <<tax_data, cart_items, shipping_state, returned, tt_args, taxes, call, ret>>

\* lines 58-66: the fresh local summary
BeginCartTax(c) ==
    /\ pc[c] = "ready"
    /\ cart_tax_summary' =
           [cart_tax_summary EXCEPT ![c] = NewCartTaxSummary(shipping_state[c])]
    /\ idx' = [idx EXCEPT ![c] = 0]
    /\ pc' = [pc EXCEPT ![c] = "loop"]
    /\ UNCHANGED <<tax_data, cart_items, shipping_state, returned, tt_args, taxes, call, ret>>

\* mutant: the running summary is an attribute of the shared instance, so a
\* turn of one caller's loop goes on from, and writes, the one summary
CartItemStepShared(c) ==
    /\ pc[c] = "loop"
    /\ idx[c] < Len(cart_items[c])
    /\ LET item == cart_items[c][idx[c] + 1]
           item_tax == CalculateProductTax(item.product, shipping_state[c], item.quantity)
       IN  cart_tax_summary' =
               [d \in Callers |-> AddItemTax(cart_tax_summary[c], item_tax)]
    /\ idx' = [idx EXCEPT ![c] = @ + 1]
    /\ UNCHANGED <<tax_data, pc, cart_items, shipping_state, returned, tt_args, taxes, call, ret>>

\* lines 68-80: one turn of the loop
CartItemStep(c) ==
    /\ pc[c] = "loop"
    /\ idx[c] < Len(cart_items[c])
    /\ LET item == cart_items[c][idx[c] + 1]
           item_tax == CalculateProductTax(item.product, shipping_state[c], item.quantity)
       IN  cart_tax_summary' =
               [cart_tax_summary EXCEPT ![c] = AddItemTax(@, item_tax)]
    /\ idx' = [idx EXCEPT ![c] = @ + 1]
    /\ UNCHANGED <<tax_data, pc, cart_items, shipping_state, returned, tt_args, taxes, call, ret>>

\* lines 82-84: grand_total and return.  The caller then makes the same call
\* once more, and stops after the second return.
FinishCartTax(c) ==
    /\ pc[c] = "loop"
    /\ idx[c] = Len(cart_items[c])
    /\ LET result == [cart_tax_summary[c] EXCEPT
                          !.grand_total = GrandTotal(cart_tax_summary[c])]
       IN  /\ cart_tax_summary' = [cart_tax_summary EXCEPT ![c] = result]
           /\ returned' = [returned EXCEPT ![c] = Append(@, result)]
    /\ pc' = [pc EXCEPT ![c] = IF returned[c] = <<>> THEN "ready" ELSE "done"]
    /\ UNCHANGED <<tax_data, cart_items, shipping_state, idx, tt_args, taxes, call, ret>>

\* a direct call of StateTobaccoTax.calculate_total_tax
CallCalculateTotalTax ==
    /\ ~IsNone(tt_args)
    /\ IsNone(taxes)
    /\ taxes' = CalculateTotalTax(tt_args.state, tt_args.product_type,
                                  tt_args.base_price, tt_args.quantity,
                                  tt_args.volume_ml)
    /\ UNCHANGED <<tax_data, cart_vars, tt_args, call, ret>>

\* whether the pending call is one of fn
Pending(fn) == ~IsNone(call) /\ IsNone(ret) /\ call.fn = fn

\* a direct call of StateTobaccoTax.get_state_info
CallGetStateInfo ==
    /\ Pending("get_state_info")
    /\ ret' = [value |-> GetStateInfo(StrOf(call.state))]
    /\ UNCHANGED <<tax_data, cart_vars, tt_args, taxes, call>>

\* mutant: the summary's sales_tax_rate, 0 where no sales tax applies, is
\* written into state_info, which is the table's own entry and not a copy
CallGetTaxRateSummaryStoring ==
    /\ Pending("get_tax_rate_summary")
    /\ ret' = [value |-> GetTaxRateSummary(StrOf(call.state))]
    /\ tax_data' =
           IF StrOf(call.state) \in DOMAIN tax_data
           THEN [tax_data EXCEPT
                    ![StrOf(call.state)].sales_tax_rate =
                        IF tax_data[StrOf(call.state)].sales_tax_applies
                        THEN @ ELSE Dec(0, 0)]
           ELSE tax_data
    /\ UNCHANGED <<cart_vars, tt_args, taxes, call>>

\* a direct call of TaxCalculator.get_tax_rate_summary
CallGetTaxRateSummary ==
    /\ Pending("get_tax_rate_summary")
    /\ ret' = [value |-> GetTaxRateSummary(StrOf(call.state))]
    /\ UNCHANGED <<tax_data, cart_vars, tt_args, taxes, call>>

\* a direct call of TaxCalculator.calculate_product_tax
CallCalculateProductTax ==
    /\ Pending("calculate_product_tax")
    /\ ret' = [value |-> CalculateProductTax(call.product, StrOf(call.state),
                                             call.quantity)]
    /\ UNCHANGED <<tax_data, cart_vars, tt_args, taxes, call>>

\* a call of TaxCalculator._get_product_type
CallGetProductType ==
    /\ Pending("_get_product_type")
    /\ ret' = [value |-> GetProductType(call.product)]
    /\ UNCHANGED <<tax_data, cart_vars, tt_args, taxes, call>>

\* a call of TaxCalculator._extract_volume_ml
CallExtractVolumeMl ==
    /\ Pending("_extract_volume_ml")
    /\ ret' = [value |-> ExtractVolumeMl(call.product)]
    /\ UNCHANGED <<tax_data, cart_vars, tt_args, taxes, call>>

\* a whole call of TaxCalculator.calculate_cart_tax
CallCalculateCartTax ==
    /\ Pending("calculate_cart_tax")
    /\ ret' = [value |-> CalculateCartTax(call.cart_items, StrOf(call.shipping_state))]
    /\ UNCHANGED <<tax_data, cart_vars, tt_args, taxes, call>>

\* a whole call of TaxCalculator.calculate_order_tax
CallCalculateOrderTax ==
    /\ Pending("calculate_order_tax")
    /\ ret' = [value |-> CalculateOrderTax(call.order_items, StrOf(call.shipping_state))]
    /\ UNCHANGED <<tax_data, cart_vars, tt_args, taxes, call>>

\* a request of POST /tax/calculate
RouteCalculateTax ==
    /\ Pending("POST /tax/calculate")
    /\ ret' = [value |-> CalculateTaxRoute(call.data)]
    /\ UNCHANGED <<tax_data, cart_vars, tt_args, taxes, call>>

\* the call has returned and the next one is made
NextCall ==
    /\ ~IsNone(call)
    /\ ~IsNone(ret)
    /\ call' \in SeqCalls
    /\ ret' = None
    /\ UNCHANGED <<tax_data, cart_vars, tt_args, taxes>>

\* a request of GET /tax/state/<state_code>
RouteStateTaxInfo ==
    /\ Pending("GET /tax/state/<state_code>")
    /\ ret' = [value |-> GetStateTaxInfoRoute(call.state_code)]
    /\ UNCHANGED <<tax_data, cart_vars, tt_args, taxes, call>>

\* a request of GET /tax/states, tax_api.py 91-110
RouteAllStates ==
    /\ Pending("GET /tax/states")
    /\ ret' = [value |->
                  [status |-> 200,
                   body |-> [i \in DOMAIN StateList |->
                                <<StrOf(StateList[i]),
                                  GetTaxRateSummary(StrOf(StateList[i]))>>]]]
    /\ UNCHANGED <<tax_data, cart_vars, tt_args, taxes, call>>

\* ------------------------------------------------------------------------
\* Specifications

\* The state after "tax_calculator = TaxCalculator()"; caller 1 is about to
\* call calculate_cart_tax(cart, st).
Init ==
    /\ tax_data = LoadTaxData
    /\ \E cart \in Carts, st \in StateCodes :
          /\ cart_items = [c \in Callers |-> IF c = 1 THEN cart ELSE <<>>]
          /\ shipping_state = [c \in Callers |-> IF c = 1 THEN st ELSE "DE"]
    /\ pc = [c \in Callers |-> IF c = 1 THEN "ready" ELSE "idle"]
    /\ cart_tax_summary = [c \in Callers |-> NewCartTaxSummary("")]
    /\ idx = [c \in Callers |-> 0]
    /\ returned = [c \in Callers |-> <<>>]
    /\ tt_args = None
    /\ taxes = None
    /\ call = None
    /\ ret = None

Next == \E c \in Callers : BeginCartTax(c) \/ CartItemStep(c) \/ FinishCartTax(c)

Spec == Init /\ [][Next]_vars

\* The state after construction; calculate_total_tax is about to be called
\* with the drawn arguments.
InitTax ==
    /\ tax_data = LoadTaxData
    /\ pc = [c \in Callers |-> "idle"]
    /\ cart_items = [c \in Callers |-> <<>>]
    /\ shipping_state = [c \in Callers |-> "DE"]
    /\ cart_tax_summary = [c \in Callers |-> NewCartTaxSummary("")]
    /\ idx = [c \in Callers |-> 0]
    /\ returned = [c \in Callers |-> <<>>]
    /\ \E st \in StateCodes, pt \in ProductTypes, p \in Prices,
          q \in 0..MaxQty, v \in Volumes :
          tt_args = [state |-> st, product_type |-> pt, base_price |-> p,
                     quantity |-> q, volume_ml |-> v]
    /\ taxes = None
    /\ call = None
    /\ ret = None

NextTax == CallCalculateTotalTax

SpecTax == InitTax /\ [][NextTax]_vars

\* The state after construction; every caller is about to call
\* calculate_cart_tax on the one tax_calculator, each with its own arguments.
InitConc ==
    /\ tax_data = LoadTaxData
    /\ cart_items \in [Callers -> ConcCarts]
    /\ shipping_state \in [Callers -> ConcStates]
    /\ pc = [c \in Callers |-> "ready"]
    /\ cart_tax_summary = [c \in Callers |-> NewCartTaxSummary("")]
    /\ idx = [c \in Callers |-> 0]
    /\ returned = [c \in Callers |-> <<>>]
    /\ tt_args = None
    /\ taxes = None
    /\ call = None
    /\ ret = None

SpecConc == InitConc /\ [][Next]_vars

\* The state after construction; one of the other entry points is about to
\* be called with the drawn arguments.
InitEntry ==
    /\ tax_data = LoadTaxData
    /\ pc = [c \in Callers |-> "idle"]
    /\ cart_items = [c \in Callers |-> <<>>]
    /\ shipping_state = [c \in Callers |-> "DE"]
    /\ cart_tax_summary = [c \in Callers |-> NewCartTaxSummary("")]
    /\ idx = [c \in Callers |-> 0]
    /\ returned = [c \in Callers |-> <<>>]
    /\ tt_args = None
    /\ taxes = None
    /\ call \in EntryCalls
    /\ ret = None

NextEntry ==
    \/ CallGetStateInfo
    \/ CallGetTaxRateSummary
    \/ CallCalculateProductTax
    \/ CallGetProductType
    \/ CallExtractVolumeMl
    \/ RouteStateTaxInfo
    \/ RouteAllStates

SpecEntry == InitEntry /\ [][NextEntry]_vars

\* The state after construction; calls are made one after another, the first
\* with the drawn arguments.
InitSeq ==
    /\ tax_data = LoadTaxData
    /\ pc = [c \in Callers |-> "idle"]
    /\ cart_items = [c \in Callers |-> <<>>]
    /\ shipping_state = [c \in Callers |-> "DE"]
    /\ cart_tax_summary = [c \in Callers |-> NewCartTaxSummary("")]
    /\ idx = [c \in Callers |-> 0]
    /\ returned = [c \in Callers |-> <<>>]
    /\ tt_args = None
    /\ taxes = None
    /\ call \in SeqCalls
    /\ ret = None

NextSeq ==
    \/ CallCalculateCartTax
    \/ CallCalculateOrderTax
    \/ CallCalculateProductTax
    \/ CallGetTaxRateSummary
    \/ RouteCalculateTax
    \/ NextCall

SpecSeq == InitSeq /\ [][NextSeq]_vars

\* ------------------------------------------------------------------------
\* Helpers of the properties

IsZero(x) == x.c = <<>>

\* x added to itself n times
RECURSIVE DecTimes(_, _)
DecTimes(x, n) == IF n = 0 THEN Dec(0, 0) ELSE DecAdd(x, DecTimes(x, n - 1))

\* every summary calculate_cart_tax has returned, with the call's arguments
Returns ==
    UNION {{[cart |-> cart_items[c], state |-> shipping_state[c],
             summary |-> returned[c][k]] : k \in 1..Len(returned[c])} : c \in Callers}

\* a direct calculate_total_tax call has returned
TaxReturned == ~IsNone(tt_args) /\ ~IsNone(taxes)

\* the pending call of fn has returned
Returned(fn) == ~IsNone(call) /\ ~IsNone(ret) /\ call.fn = fn

\* ------------------------------------------------------------------------
\* C1: every summary calculate_cart_tax returns has
\* grand_total = subtotal + total_tax and
\* total_tax = total_excise_tax + total_sales_tax, hence
\* grand_total = subtotal + total_excise_tax + total_sales_tax, exactly.
C1_TotalsAddUp ==
    \A r \in Returns :
        LET s == r.summary
        IN  /\ DecEq(s.grand_total, DecAdd(s.subtotal, s.total_tax))
            /\ DecEq(s.total_tax, DecAdd(s.total_excise_tax, s.total_sales_tax))
            /\ DecEq(s.grand_total,
                     DecAdd(DecAdd(s.subtotal, s.total_excise_tax), s.total_sales_tax))

\* a returned summary of two lines with excise and sales tax
C1_Witness ==
    \E r \in Returns :
        /\ Len(r.summary.items) = 2
        /\ ~IsZero(r.summary.total_excise_tax)
        /\ ~IsZero(r.summary.total_sales_tax)
        /\ \A i \in 1..2 : ~IsZero(r.summary.items[i].sales_tax)

\* C2: for a jurisdiction code that is no key of the rule table, the returned
\* summary has total_excise_tax, total_sales_tax and total_tax zero, every
\* item's excise_tax, sales_tax and total_tax zero, and grand_total = subtotal.
C2_UnknownStateZeroTax ==
    \A r \in Returns :
        r.state \notin DOMAIN tax_data =>
            LET s == r.summary
            IN  /\ IsZero(s.total_excise_tax)
                /\ IsZero(s.total_sales_tax)
                /\ IsZero(s.total_tax)
                /\ Len(s.items) = Len(r.cart)
                /\ \A i \in 1..Len(s.items) :
                       /\ IsZero(s.items[i].excise_tax)
                       /\ IsZero(s.items[i].sales_tax)
                       /\ IsZero(s.items[i].total_tax)
                /\ DecEq(s.grand_total, s.subtotal)

\* a returned summary for "ZZ" with a cigarette line and a positive subtotal
C2_Witness ==
    \E r \in Returns :
        /\ r.state = "ZZ"
        /\ Len(r.cart) = 2
        /\ r.cart[1].product = MarlboroGold
        /\ ~IsZero(r.summary.subtotal)

\* C3: on an empty cart, for any jurisdiction code, the returned summary has
\* subtotal, total_excise_tax, total_sales_tax, total_tax and grand_total zero
\* and an empty items list.
C3_EmptyCart ==
    \A r \in Returns :
        r.cart = <<>> =>
            /\ IsZero(r.summary.subtotal)
            /\ IsZero(r.summary.total_excise_tax)
            /\ IsZero(r.summary.total_sales_tax)
            /\ IsZero(r.summary.total_tax)
            /\ IsZero(r.summary.grand_total)
            /\ r.summary.items = <<>>

\* the empty cart has been computed for NY
C3_Witness ==
    \E r \in Returns : r.cart = <<>> /\ r.state = "NY"

\* C4: for every jurisdiction of the table and every quantity q >= 0,
\* calculate_total_tax with product_type 'cigarettes' reports the excise
\* cigarette_tax * q (the rate added q times), with the rate's 3 decimal
\* places, whatever the price and the volume.
C4_CigaretteExcise ==
    (TaxReturned /\ tt_args.product_type = "cigarettes"
        /\ tt_args.state \in DOMAIN tax_data) =>
        /\ DecEq(taxes.excise_tax,
                 DecTimes(tax_data[tt_args.state].cigarette_tax, tt_args.quantity))
        /\ taxes.excise_tax.e = 3

\* 3 packs at 100 with a volume in NY: 3 * 5.350 = 16.050
C4_Witness ==
    /\ TaxReturned
    /\ tt_args.product_type = "cigarettes"
    /\ tt_args.state = "NY"
    /\ tt_args.quantity = 3
    /\ tt_args.base_price = Dec(100, 0)
    /\ ~IsNone(tt_args.volume_ml)
    /\ taxes.excise_tax = Dec(16050, 3)

\* C5: where the cigar rule is 'percentage' with a single 'cap', the cigar
\* excise for price p and quantity q is min(p * rate, cap) * q and is at most
\* cap * q; a single cap wins over a tiered pair (price 100, rate 10%, cap
\* 5.00, quantity 3 gives 15.00, with or without cap_low and cap_high).
C5_CigarSingleCap ==
    /\ (TaxReturned /\ tt_args.product_type \in {"cigars", "cigar"}
          /\ tt_args.state \in DOMAIN tax_data
          /\ tax_data[tt_args.state].cigar_tax.type = "percentage"
          /\ "cap" \in DOMAIN tax_data[tt_args.state].cigar_tax) =>
          LET rule == tax_data[tt_args.state].cigar_tax
              q == DecOfInt(tt_args.quantity)
              uncapped == DecMul(tt_args.base_price, rule.rate)
              per_unit == IF DecLess(rule.cap, uncapped) THEN rule.cap ELSE uncapped
          IN  /\ DecEq(taxes.excise_tax, DecMul(per_unit, q))
              /\ ~DecLess(DecMul(rule.cap, q), taxes.excise_tax)
    /\ DecEq(CigarTaxOfRule([type |-> "percentage", rate |-> Dec(10, 2),
                             cap |-> Dec(500, 2)], Dec(100, 0), 3),
             Dec(1500, 2))
    /\ DecEq(CigarTaxOfRule([type |-> "percentage", rate |-> Dec(10, 2),
                             cap |-> Dec(500, 2), cap_low |-> Dec(200, 2),
                             cap_high |-> Dec(400, 2)], Dec(100, 0), 3),
             Dec(1500, 2))

\* IN (rate 30%, cap 3.00): price 100, quantity 3, the cap binds: 9.00
C5_Witness ==
    /\ TaxReturned
    /\ tt_args.product_type = "cigars"
    /\ tt_args.state = "IN"
    /\ tt_args.base_price = Dec(100, 0)
    /\ tt_args.quantity = 3
    /\ DecEq(taxes.excise_tax, Dec(900, 2))

\* C6: in VT (cap_low 2.00, cap_high 4.00) the per-unit cigar tax is
\* min(price * rate, 2.00) when price < 10 and min(price * rate, 4.00) when
\* price >= 10, and the excise is that tax * quantity.
C6_CigarTieredCap ==
    (TaxReturned /\ tt_args.product_type \in {"cigars", "cigar"}
        /\ tt_args.state = "VT") =>
        LET rule == tax_data["VT"].cigar_tax
            uncapped == DecMul(tt_args.base_price, rule.rate)
            cap == IF DecLess(tt_args.base_price, Dec(10, 0))
                   THEN Dec(200, 2) ELSE Dec(400, 2)
            per_unit == IF DecLess(cap, uncapped) THEN cap ELSE uncapped
        IN  DecEq(taxes.excise_tax, DecMul(per_unit, DecOfInt(tt_args.quantity)))

\* VT at a price of exactly 10, quantity 2: min(9.20, 4.00) * 2 = 8.00
C6_Witness ==
    /\ TaxReturned
    /\ tt_args.product_type = "cigars"
    /\ tt_args.state = "VT"
    /\ tt_args.base_price = Dec(10, 0)
    /\ tt_args.quantity = 2
    /\ DecEq(taxes.excise_tax, Dec(8, 0))

\* C7: sales_tax is 0 when the jurisdiction is absent or its
\* sales_tax_applies is false, and otherwise
\* (base_price + excise_tax) * sales_tax_rate; total_tax is excise + sales
\* (WI, rate 5%: price 10 and excise 2 give sales tax 0.60, total tax 2.60).
C7_SalesTaxOnExcise ==
    TaxReturned =>
        /\ IF tt_args.state \notin DOMAIN tax_data
           THEN IsZero(taxes.sales_tax)
           ELSE IF ~tax_data[tt_args.state].sales_tax_applies
           THEN IsZero(taxes.sales_tax)
           ELSE DecEq(taxes.sales_tax,
                      DecMul(DecAdd(tt_args.base_price, taxes.excise_tax),
                             tax_data[tt_args.state].sales_tax_rate))
        /\ DecEq(taxes.total_tax, DecAdd(taxes.excise_tax, taxes.sales_tax))
        /\ (/\ tt_args.state = "WI"
            /\ tt_args.base_price = Dec(10, 0)
            /\ DecEq(taxes.excise_tax, Dec(2, 0))) =>
               /\ DecEq(taxes.sales_tax, Dec(60, 2))
               /\ DecEq(taxes.total_tax, Dec(260, 2))

\* WI, 4 cigars at 10: excise min(7.10, 0.50) * 4 = 2.00, sales tax 0.60
C7_Witness ==
    /\ TaxReturned
    /\ tt_args.state = "WI"
    /\ tt_args.product_type = "cigars"
    /\ tt_args.base_price = Dec(10, 0)
    /\ tt_args.quantity = 4
    /\ DecEq(taxes.excise_tax, Dec(2, 0))
    /\ DecEq(taxes.sales_tax, Dec(60, 2))

\* the lines of the returned summaries, each with its product and the code
ReturnedLines ==
    UNION {{[product |-> r.cart[i].product, quantity |-> r.cart[i].quantity,
             state |-> r.state, tax |-> r.summary.items[i]] :
                i \in 1..Len(r.summary.items)} : r \in Returns}

PerMlState(state) ==
    /\ state \in DOMAIN tax_data
    /\ ~IsNone(tax_data[state].vape_tax)
    /\ tax_data[state].vape_tax.type = "per_ml"

C9_SecondCallEqual ==
    \A c \in Callers :
        Len(returned[c]) >= 2 => returned[c][1] = returned[c][2]

\* both calls have returned for a cart of two taxed lines
C9_Witness ==
    \E c \in Callers :
        /\ Len(returned[c]) = 2
        /\ Len(cart_items[c]) = 2
        /\ Len(returned[c][2].items) = 2
        /\ ~IsZero(returned[c][2].total_tax)

\* C10: the items list holds one breakdown per line item taken so far, the
\* i-th being that of the i-th line (same product_id and quantity), in input
\* order, also when a product appears in several lines; a returned summary
\* holds one per input line.
C10_ItemsInInputOrder ==
    /\ \A c \in Callers :
          pc[c] \in {"loop", "done"} =>
              LET items == cart_tax_summary[c].items
              IN  /\ Len(items) = idx[c]
                  /\ \A i \in 1..Len(items) :
                         /\ items[i].product_id = cart_items[c][i].product.id
                         /\ items[i].quantity = cart_items[c][i].quantity
    /\ \A r \in Returns :
          /\ Len(r.summary.items) = Len(r.cart)
          /\ \A i \in 1..Len(r.cart) :
                 /\ r.summary.items[i].product_id = r.cart[i].product.id
                 /\ r.summary.items[i].quantity = r.cart[i].quantity

\* a returned summary whose lines are the same product twice, quantity 2
\* before quantity 1
C10_Witness ==
    \E r \in Returns :
        /\ Len(r.cart) = 2
        /\ r.cart[1] = [product |-> MarlboroGold, quantity |-> 2]
        /\ r.cart[2] = [product |-> MarlboroGold, quantity |-> 1]
        /\ r.summary.items[1].quantity = 2
        /\ r.summary.items[2].quantity = 1

\* ------------------------------------------------------------------------
\* C11: the rule table has exactly 51 entries, keyed by the codes of the 50
\* states and DC; get_state_info of any other code returns the empty ruleset,
\* and of a code of the table that code's entry.
FiftyStatesAndDC ==
    {"AL", "AK", "AZ", "AR", "CA", "CO", "CT", "DE", "FL", "GA",
     "HI", "ID", "IL", "IN", "IA", "KS", "KY", "LA", "ME", "MD",
     "MA", "MI", "MN", "MS", "MO", "MT", "NE", "NV", "NH", "NJ",
     "NM", "NY", "NC", "ND", "OH", "OK", "OR", "PA", "RI", "SC",
     "SD", "TN", "TX", "UT", "VT", "VA", "WA", "WV", "WI", "WY"} \cup {"DC"}

C11_FiftyOneEntries ==
    /\ Cardinality(DOMAIN tax_data) = 51
    /\ DOMAIN tax_data = FiftyStatesAndDC
    /\ Returned("get_state_info") =>
          IF StrOf(call.state) \in FiftyStatesAndDC
          THEN ret.value = LoadTaxData[StrOf(call.state)]
          ELSE ret.value = <<>>

\* witness: get_state_info has returned for a code that is not in the table,
\* here a known code in lower case
C11_Witness ==
    /\ Returned("get_state_info")
    /\ call.state = <<"d", "e">>
    /\ ret.value = <<>>

\* ------------------------------------------------------------------------
\* C12: jurisdiction codes are case-insensitive at every entry point:
\* calculate_product_tax and the jurisdiction summary give for a spelling of a
\* code in lower or mixed case the result they give for the upper-case
\* spelling.
SameAmounts(x, y) ==
    /\ DecEq(x.excise_tax, y.excise_tax)
    /\ DecEq(x.sales_tax, y.sales_tax)
    /\ DecEq(x.total_tax, y.total_tax)
    /\ DecEq(x.price_with_tax, y.price_with_tax)

C12_CaseInsensitive ==
    /\ Returned("calculate_product_tax") =>
          SameAmounts(ret.value,
                      CalculateProductTax(call.product, StrOf(Upper(call.state)),
                                          call.quantity))
    /\ Returned("get_tax_rate_summary") =>
          LET upper == GetTaxRateSummary(StrOf(Upper(call.state)))
          IN  /\ ("error" \in DOMAIN ret.value) <=> ("error" \in DOMAIN upper)
              /\ "error" \notin DOMAIN upper =>
                    [k \in DOMAIN upper \ {"state"} |-> ret.value[k]]
                        = [k \in DOMAIN upper \ {"state"} |-> upper[k]]

\* ------------------------------------------------------------------------
\* C13: the classifier looks in the lower-cased category name and product
\* name, in strict priority: "cigarette" gives cigarettes; else "cigar" gives
\* cigars; else one of vape, e-cig, electronic, vapor gives vape_closed when
\* the product name has cartridge, pod or disposable and vape_open otherwise;
\* a product with none of the keywords is classified cigars.

\* some stretch of s reads w when upper-case letters are read as lower-case
ReadsAt(s, i, w) ==
    /\ i + Len(w) - 1 <= Len(s)
    /\ \A k \in 1..Len(w) :
          \/ s[i + k - 1] = w[k]
          \/ w[k] \in DOMAIN LowerCase /\ s[i + k - 1] = LowerCase[w[k]]

Reads(s, w) == \E i \in 1..Len(s) : ReadsAt(s, i, w)

\* the category name or the product name of p has the keyword w
Mentions(p, w) ==
    \/ ~IsNone(p.category) /\ Reads(p.category.name, w)
    \/ Reads(p.name, w)

VapeWords ==
    {<<"v", "a", "p", "e">>, <<"e", "-", "c", "i", "g">>,
     <<"e", "l", "e", "c", "t", "r", "o", "n", "i", "c">>, <<"v", "a", "p", "o", "r">>}

ClosedWords ==
    {<<"c", "a", "r", "t", "r", "i", "d", "g", "e">>, <<"p", "o", "d">>,
     <<"d", "i", "s", "p", "o", "s", "a", "b", "l", "e">>}

Classified(p) ==
    IF Mentions(p, <<"c", "i", "g", "a", "r", "e", "t", "t", "e">>) THEN "cigarettes"
    ELSE IF Mentions(p, <<"c", "i", "g", "a", "r">>) THEN "cigars"
    ELSE IF \E w \in VapeWords : Mentions(p, w)
    THEN (IF \E w \in ClosedWords : Reads(p.name, w) THEN "vape_closed" ELSE "vape_open")
    ELSE "cigars"

C13_ClassifierPriority ==
    Returned("_get_product_type") => ret.value = Classified(call.product)

\* witness: a product whose name has both "cigar" and "vape", in a category
\* named with a vape keyword, has been classified cigars
C13_Witness ==
    /\ Returned("_get_product_type")
    /\ Reads(call.product.name, <<"c", "i", "g", "a", "r">>)
    /\ Reads(call.product.name, <<"v", "a", "p", "e">>)
    /\ ~IsNone(call.product.category)
    /\ Reads(call.product.category.name, <<"v", "a", "p", "o", "r">>)
    /\ ret.value = "cigars"

\* ------------------------------------------------------------------------
\* C14: the volume is the number followed by a unit that the text
\* "name description" has; of several, which one.

\* "name description"
TextOf(p) == p.name \o <<" ">> \o p.description

\* s is digits, or digits "." digits
IsNumber(s) ==
    /\ s # <<>>
    /\ \A k \in 1..Len(s) : s[k] \in Digits \/ s[k] = "."
    /\ Cardinality({k \in 1..Len(s) : s[k] = "."}) <= 1
    /\ s[1] # "." /\ s[Len(s)] # "."

\* text[i..j-1] is a number that blanks, if anything, separate from unit
Occurs(text, i, j, unit) ==
    /\ i < j
    /\ IsNumber(SubSeq(text, i, j - 1))
    /\ \E k \in j..Len(text) :
          /\ \A b \in j..(k - 1) : text[b] = " "
          /\ ReadsAt(text, k, unit)

\* where numbers followed by unit start
Starts(text, unit) ==
    {i \in 1..Len(text) : \E j \in (i + 1)..Len(text) : Occurs(text, i, j, unit)}

\* the number followed by unit that starts at i
NumberAt(text, i, unit) ==
    LET j == CHOOSE j \in (i + 1)..Len(text) : Occurs(text, i, j, unit)
    IN  SubSeq(text, i, j - 1)

Least(S) == CHOOSE i \in S : \A j \in S : i <= j

Ml == <<"m", "l">>

Milliliter == <<"m", "i", "l", "l", "i", "l", "i", "t", "e", "r">>

\* C14 as stated: of the numbers followed by ml or by milliliter, the one
\* that comes first in the text is the volume.
C14_Original ==
    Returned("_extract_volume_ml") =>
        LET text == TextOf(call.product)
            ml == Starts(text, Ml)
            milliliter == Starts(text, Milliliter)
        IN  ml \cup milliliter # {} =>
                LET i == Least(ml \cup milliliter)
                    number == IF i \in ml THEN NumberAt(text, i, Ml)
                              ELSE NumberAt(text, i, Milliliter)
                IN  /\ ~IsNone(ret.value)
                    /\ DecEq(ret.value, DecimalOfStr(number))

\* C14 (amended): the volume is the first number followed by ml when the text
\* has one, whatever numbers followed by milliliter precede it, and the first
\* number followed by milliliter only when no number is followed by ml.
C14_MlBeforeMilliliter ==
    Returned("_extract_volume_ml") =>
        LET text == TextOf(call.product)
            ml == Starts(text, Ml)
            milliliter == Starts(text, Milliliter)
        IN  /\ ml # {} =>
                /\ ~IsNone(ret.value)
                /\ DecEq(ret.value, DecimalOfStr(NumberAt(text, Least(ml), Ml)))
            /\ ml = {} /\ milliliter # {} =>
                /\ ~IsNone(ret.value)
                /\ DecEq(ret.value,
                         DecimalOfStr(NumberAt(text, Least(milliliter), Milliliter)))

\* witness: a text with a number followed by milliliter before a number
\* followed by ml has given the volume of the latter
C14_Witness ==
    /\ Returned("_extract_volume_ml")
    /\ LET text == TextOf(call.product)
           ml == Starts(text, Ml)
           milliliter == Starts(text, Milliliter)
       IN  /\ ml # {} /\ milliliter # {}
           /\ Least(milliliter) < Least(ml)
           /\ DecEq(ret.value, Dec(30, 0))

\* ------------------------------------------------------------------------
\* Vape rules of a direct calculate_total_tax call

\* the vape rule of the call's jurisdiction, None when the jurisdiction is
\* unknown or has none
VapeRule ==
    IF tt_args.state \in DOMAIN LoadTaxData
    THEN LoadTaxData[tt_args.state].vape_tax ELSE None

VapeRuleIs(type) == ~IsNone(VapeRule) /\ VapeRule.type = type

One == Dec(1, 0)

\* x * y * q
Times3(x, y, q) == DecMul(DecMul(x, y), DecOfInt(q))

\* C15: under a bifurcated rule an open-system item is taxed at
\* price * open * quantity when the open sub-rate is below 1, and otherwise at
\* volume * open * quantity.
C15_BifurcatedOpen ==
    (/\ TaxReturned
     /\ tt_args.product_type = "vape_open"
     /\ VapeRuleIs("bifurcated")
     /\ "open" \in DOMAIN VapeRule) =>
        IF DecLess(VapeRule.open, One)
        THEN DecEq(taxes.excise_tax,
                   Times3(tt_args.base_price, VapeRule.open, tt_args.quantity))
        ELSE /\ ~IsNone(tt_args.volume_ml)
             /\ DecEq(taxes.excise_tax,
                      Times3(tt_args.volume_ml, VapeRule.open, tt_args.quantity))

\* C16 as stated: under a bifurcated rule a closed-system item is taxed at
\* price * closed * quantity when the closed sub-rate is below 1; otherwise at
\* volume * closed * quantity when a volume is present; otherwise at
\* closed * quantity.
ClosedItem ==
    /\ TaxReturned
    /\ tt_args.product_type \in {"vape", "e-cigarette", "vape_closed"}
    /\ VapeRuleIs("bifurcated")
    /\ "closed" \in DOMAIN VapeRule

C16_Original ==
    ClosedItem =>
        IF DecLess(VapeRule.closed, One)
        THEN DecEq(taxes.excise_tax,
                   Times3(tt_args.base_price, VapeRule.closed, tt_args.quantity))
        ELSE IF ~IsNone(tt_args.volume_ml)
        THEN DecEq(taxes.excise_tax,
                   Times3(tt_args.volume_ml, VapeRule.closed, tt_args.quantity))
        ELSE DecEq(taxes.excise_tax,
                   DecMul(VapeRule.closed, DecOfInt(tt_args.quantity)))

\* C16 (amended): ... otherwise at volume * closed * quantity when a volume
\* other than zero is given; otherwise, the volume absent or zero, at
\* closed * quantity.
C16_BifurcatedClosed ==
    ClosedItem =>
        IF DecLess(VapeRule.closed, One)
        THEN DecEq(taxes.excise_tax,
                   Times3(tt_args.base_price, VapeRule.closed, tt_args.quantity))
        ELSE IF ~IsNone(tt_args.volume_ml) /\ ~IsZero(tt_args.volume_ml)
        THEN DecEq(taxes.excise_tax,
                   Times3(tt_args.volume_ml, VapeRule.closed, tt_args.quantity))
        ELSE DecEq(taxes.excise_tax,
                   DecMul(VapeRule.closed, DecOfInt(tt_args.quantity)))

\* witness: KY (closed sub-rate 1.50), two closed items with a volume of
\* zero: the flat 1.50 each
C16_Witness ==
    /\ ClosedItem
    /\ tt_args.state = "KY"
    /\ tt_args.quantity = 2
    /\ ~IsNone(tt_args.volume_ml) /\ IsZero(tt_args.volume_ml)
    /\ DecEq(taxes.excise_tax, Dec(300, 2))

\* C17: under the dual rule (CA) the vape excise is
\* (price * wholesale + price * retail) * quantity, for the open and the
\* closed sub-type and whatever the volume.
C17_Dual ==
    (/\ TaxReturned
     /\ tt_args.product_type \in {"vape", "e-cigarette", "vape_open", "vape_closed"}
     /\ VapeRuleIs("dual")) =>
        /\ tt_args.state = "CA"
        /\ DecEq(taxes.excise_tax,
                 DecMul(DecAdd(DecMul(tt_args.base_price, VapeRule.wholesale),
                               DecMul(tt_args.base_price, VapeRule.retail)),
                        DecOfInt(tt_args.quantity)))

\* witness: CA, 3 open-system items at 100 with a volume of 30:
\* (56.32 + 12.50) * 3 = 206.46
C17_Witness ==
    /\ TaxReturned
    /\ tt_args.state = "CA"
    /\ tt_args.product_type = "vape_open"
    /\ tt_args.base_price = Dec(100, 0)
    /\ tt_args.quantity = 3
    /\ tt_args.volume_ml = Dec(30, 0)
    /\ DecEq(taxes.excise_tax, Dec(20646, 2))

\* C18: calculate_total_tax returns a breakdown for every jurisdiction code,
\* product type, price, quantity and volume given or not; a product type that
\* is not recognised, and a volume not given under a per_ml rule, yield
\* excise_tax 0.
RecognisedTypes ==
    {"cigarettes", "cigars", "cigar", "vape", "e-cigarette", "vape_open", "vape_closed"}

C18_NeverRaises ==
    /\ (~IsNone(tt_args) /\ IsNone(taxes)) =>
          DOMAIN CalculateTotalTax(tt_args.state, tt_args.product_type,
                                   tt_args.base_price, tt_args.quantity,
                                   tt_args.volume_ml)
              = {"excise_tax", "sales_tax", "total_tax"}
    /\ TaxReturned =>
          /\ DOMAIN taxes = {"excise_tax", "sales_tax", "total_tax"}
          /\ \A k \in DOMAIN taxes : taxes[k].s \in {0, 1} /\ taxes[k].e \in Nat
          /\ tt_args.product_type \notin RecognisedTypes => IsZero(taxes.excise_tax)
          /\ (/\ tt_args.product_type \in
                    {"vape", "e-cigarette", "vape_open", "vape_closed"}
              /\ VapeRuleIs("per_ml")
              /\ IsNone(tt_args.volume_ml)) => IsZero(taxes.excise_tax)
          /\ (/\ tt_args.product_type \in
                    {"vape", "e-cigarette", "vape_open", "vape_closed"}
              /\ VapeRuleIs("percentage")
              /\ IsZero(tt_args.base_price)) => IsZero(taxes.excise_tax)

\* witness: a product type that is not recognised, in a jurisdiction that
\* charges sales tax: no excise, sales tax on the price
C18_Witness ==
    /\ TaxReturned
    /\ tt_args.product_type = "hookah"
    /\ tt_args.state = "WI"
    /\ tt_args.base_price = Dec(100, 0)
    /\ IsZero(taxes.excise_tax)
    /\ DecEq(taxes.sales_tax, Dec(5, 0))

\* ------------------------------------------------------------------------
\* C19: every tax amount is non-negative: excise_tax, sales_tax and total_tax
\* of every per-item breakdown, and total_excise_tax, total_sales_tax and
\* total_tax of every cart summary.
IsNonNegative(x) == x.s = 0 \/ IsZero(x)

NonNegativeBreakdown(t) ==
    /\ IsNonNegative(t.excise_tax)
    /\ IsNonNegative(t.sales_tax)
    /\ IsNonNegative(t.total_tax)

C19_NonNegative ==
    /\ TaxReturned => NonNegativeBreakdown(taxes)
    /\ Returned("calculate_product_tax") => NonNegativeBreakdown(ret.value)
    /\ \A c \in Callers :
          \* the running sums, and those of the summaries returned
          \A summary \in {cart_tax_summary[c]}
                         \cup {returned[c][k] : k \in 1..Len(returned[c])} :
              /\ IsNonNegative(summary.total_excise_tax)
              /\ IsNonNegative(summary.total_sales_tax)
              /\ IsNonNegative(summary.total_tax)
              /\ \A k \in 1..Len(summary.items) : NonNegativeBreakdown(summary.items[k])

\* witness: a summary of two lines has been returned whose three totals, and
\* the excise of each line, are above zero
C19_Witness ==
    \E r \in Returns :
        /\ Len(r.summary.items) = 2
        /\ \A k \in 1..2 : DecLess(Dec(0, 0), r.summary.items[k].excise_tax)
        /\ DecLess(Dec(0, 0), r.summary.total_excise_tax)
        /\ DecLess(Dec(0, 0), r.summary.total_sales_tax)
        /\ DecLess(Dec(0, 0), r.summary.total_tax)

\* ------------------------------------------------------------------------
\* C20: calculate_cart_tax invocations that run at the same time on the
\* shared tax_calculator each return the summary the call returns when it
\* runs alone, under every interleaving of their turns of the loop: the
\* running sums of an invocation are those of its own items so far.

\* the first n lines of cart
Prefix(cart, n) == SubSeq(cart, 1, n)

C20_ConcurrentCallsIndependent ==
    \A c \in Callers :
        /\ \A k \in 1..Len(returned[c]) :
              returned[c][k] = CalculateCartTax(cart_items[c], shipping_state[c])
        /\ pc[c] = "loop" =>
              cart_tax_summary[c] =
                  CartTaxLoop(NewCartTaxSummary(shipping_state[c]),
                              Prefix(cart_items[c], idx[c]), shipping_state[c], 1)

\* witness: two invocations with different arguments are both inside their
\* loops, each with a line taken, after caller 1 has already returned once
C20_Witness ==
    /\ pc[1] = "loop" /\ idx[1] = 1
    /\ pc[2] = "loop" /\ idx[2] = 1
    /\ cart_items[1] # cart_items[2]
    /\ shipping_state[1] # shipping_state[2]
    /\ Len(returned[1]) = 1
    /\ ~IsZero(returned[1][1].total_tax)
    /\ returned[1][1] = CalculateCartTax(cart_items[1], shipping_state[1])

\* ------------------------------------------------------------------------
\* C21: the totals calculate_cart_tax returns do not depend on the order of
\* the line items, and the breakdown of a line does not depend on the lines
\* before or after it.

\* the ways to reorder n lines
Reorderings(n) ==
    {p \in [1..n -> 1..n] : \A i, j \in 1..n : p[i] = p[j] => i = j}

SameTotals(x, y) ==
    /\ DecEq(x.subtotal, y.subtotal)
    /\ DecEq(x.total_excise_tax, y.total_excise_tax)
    /\ DecEq(x.total_sales_tax, y.total_sales_tax)
    /\ DecEq(x.total_tax, y.total_tax)
    /\ DecEq(x.grand_total, y.grand_total)

C21_OrderIndependent ==
    Returned("calculate_cart_tax") =>
        LET cart == call.cart_items
            state == StrOf(call.shipping_state)
        IN  \A p \in Reorderings(Len(cart)) :
                LET reordered == [k \in 1..Len(cart) |-> cart[p[k]]]
                    summary == CalculateCartTax(reordered, state)
                IN  /\ SameTotals(summary, ret.value)
                    /\ \A k \in 1..Len(cart) :
                           summary.items[k] = ret.value.items[p[k]]

\* witness: a cart of three different lines with different excise has
\* returned in a jurisdiction with sales tax, and reversing the lines gives
\* its totals
C21_Witness ==
    /\ Returned("calculate_cart_tax")
    /\ Len(call.cart_items) = 3
    /\ \A i, j \in 1..3 :
           i # j => ~DecEq(ret.value.items[i].excise_tax,
                           ret.value.items[j].excise_tax)
    /\ ~IsZero(ret.value.total_sales_tax)
    /\ SameTotals(CalculateCartTax(<<call.cart_items[3], call.cart_items[2],
                                     call.cart_items[1]>>,
                                   StrOf(call.shipping_state)),
                  ret.value)

\* ------------------------------------------------------------------------
\* C22: the rule table is never mutated: whatever calls of
\* calculate_product_tax, calculate_cart_tax, calculate_order_tax and
\* get_tax_rate_summary are made one after another, tax_data holds the
\* entries and values it held after construction.
C22_TableNeverMutated == tax_data = LoadTaxData

\* witness: get_tax_rate_summary has returned the rates of a jurisdiction
\* without sales tax, whose summary shows a rate of 0 in place of the table's
\* 0.00, and the table is as constructed
C22_Witness ==
    /\ Returned("get_tax_rate_summary")
    /\ call.state = <<"D", "E">>
    /\ ret.value.sales_tax_rate = 0
    /\ tax_data["DE"].sales_tax_rate = Dec(0, 2)
    /\ tax_data = LoadTaxData

\* ------------------------------------------------------------------------
\* C23: get_tax_rate_summary returns a result with an 'error' entry for every
\* code that is not in the rule table, and for each of the 51 codes of the
\* table a rate description without an 'error' entry, whatever the shape of
\* the cigar and vape rules; GET /tax/state/<code> answers 404 in the first
\* case and 200 in the second, and GET /tax/states lists the 51 descriptions.

\* the entries of a rate description
SummaryKeys ==
    {"state", "cigarette_tax_per_pack", "cigar_tax", "vape_tax",
     "sales_tax_applies", "sales_tax_rate", "wholesaler_license_required",
     "filing_requirements"}

\* d describes a rule: it has a type and a text, and a rate when the type is
\* one with a single rate
DescribesRule(d) ==
    /\ {"type", "description"} \subseteq DOMAIN d
    /\ d.type \in {"none", "percentage", "per_unit", "per_ml", "bifurcated", "complex"}
    /\ d.type \in {"percentage", "per_unit", "per_ml"} <=> "rate" \in DOMAIN d

IsRateDescription(summary, code) ==
    /\ DOMAIN summary = SummaryKeys
    /\ summary.state = code
    /\ DescribesRule(summary.cigar_tax)
    /\ DescribesRule(summary.vape_tax)

C23_NotFoundMarker ==
    /\ Returned("get_tax_rate_summary") =>
          IF StrOf(call.state) \in FiftyStatesAndDC
          THEN IsRateDescription(ret.value, StrOf(call.state))
          ELSE DOMAIN ret.value = {"error"}
    /\ Returned("GET /tax/state/<state_code>") =>
          IF StrOf(Upper(call.state_code)) \in FiftyStatesAndDC
          THEN /\ ret.value.status = 200
               /\ IsRateDescription(ret.value.body, StrOf(Upper(call.state_code)))
          ELSE /\ ret.value.status = 404
               /\ DOMAIN ret.value.body = {"error"}
    /\ Returned("GET /tax/states") =>
          /\ ret.value.status = 200
          /\ {ret.value.body[i][1] : i \in DOMAIN ret.value.body} = FiftyStatesAndDC
          /\ \A i \in DOMAIN ret.value.body :
                 IsRateDescription(ret.value.body[i][2], ret.value.body[i][1])

\* witness: the summary of a jurisdiction whose vape rule has none of the
\* listed types has returned as a rate description
C23_Witness ==
    /\ Returned("get_tax_rate_summary")
    /\ StrOf(call.state) \in FiftyStatesAndDC
    /\ ret.value.vape_tax.type = "complex"
    /\ ret.value.cigar_tax.type = "percentage"
    /\ "error" \notin DOMAIN ret.value

\* ------------------------------------------------------------------------
\* C24: every monetary value calculate_product_tax and calculate_cart_tax
\* compute and return (price, volume, excise, sales tax, totals per item and
\* per cart) is a Decimal and none is a float; the values become floats only
\* in the response POST /tax/calculate builds from the returned summary.
IsDecimal(x) == DOMAIN x = {"s", "c", "e"}

IsFloat(x) == DOMAIN x = {"float"}

DecimalBreakdown(item_tax) ==
    /\ IsDecimal(item_tax.base_price)
    /\ IsDecimal(item_tax.excise_tax)
    /\ IsDecimal(item_tax.sales_tax)
    /\ IsDecimal(item_tax.total_tax)
    /\ IsDecimal(item_tax.price_with_tax)

DecimalSummary(summary) ==
    /\ IsDecimal(summary.subtotal)
    /\ IsDecimal(summary.total_excise_tax)
    /\ IsDecimal(summary.total_sales_tax)
    /\ IsDecimal(summary.total_tax)
    /\ IsDecimal(summary.grand_total)
    /\ \A k \in 1..Len(summary.items) : DecimalBreakdown(summary.items[k])

C24_DecimalUntilTheEdge ==
    /\ Returned("calculate_product_tax") =>
          /\ DecimalBreakdown(ret.value)
          /\ LET volume_ml == ExtractVolumeMl(call.product)
             IN  IsNone(volume_ml) \/ IsDecimal(volume_ml)
    /\ Returned("calculate_cart_tax") => DecimalSummary(ret.value)
    /\ Returned("calculate_order_tax") => DecimalSummary(ret.value)
    /\ (Returned("POST /tax/calculate") /\ ret.value.status = 200) =>
          LET body == ret.value.body
              tax_summary ==
                  CalculateCartTax(
                      [k \in 1..Len(call.data.items) |->
                          [product |-> ProductById(call.data.items[k].product_id),
                           quantity |-> body.items[k].quantity]],
                      body.state)
          IN  /\ DecimalSummary(tax_summary)
              /\ body.subtotal = Float(tax_summary.subtotal)
              /\ body.total_excise_tax = Float(tax_summary.total_excise_tax)
              /\ body.total_sales_tax = Float(tax_summary.total_sales_tax)
              /\ body.total_tax = Float(tax_summary.total_tax)
              /\ body.grand_total = Float(tax_summary.grand_total)
              /\ IsFloat(body.grand_total)
              /\ \A k \in 1..Len(body.items) :
                     /\ IsFloat(body.items[k].price_with_tax)
                     /\ body.items[k].price_with_tax
                            = Float(tax_summary.items[k].price_with_tax)

\* witness: POST /tax/calculate has answered with floats for a cart of two
\* lines with excise and sales tax, whose summary was computed in Decimals
C24_Witness ==
    /\ Returned("POST /tax/calculate")
    /\ ret.value.status = 200
    /\ Len(ret.value.body.items) = 2
    /\ IsFloat(ret.value.body.grand_total)
    /\ ret.value.body.total_excise_tax # Float(Dec(0, 0))
    /\ ret.value.body.total_sales_tax # Float(Dec(0, 0))
    /\ IsDecimal(CalculateCartTax(<<[product |-> ProductById(1), quantity |-> 2],
                                    [product |-> ProductById(2), quantity |-> 3]>>,
                                  ret.value.body.state).grand_total)

\* ------------------------------------------------------------------------
\* C25: every breakdown calculate_product_tax returns has
\* total_tax = excise_tax + sales_tax and price_with_tax = base_price +
\* total_tax, and carries the product_id and product_name of the product and
\* the quantity it was computed for.
C25_BreakdownAddsUp ==
    Returned("calculate_product_tax") =>
        /\ DecEq(ret.value.total_tax,
                 DecAdd(ret.value.excise_tax, ret.value.sales_tax))
        /\ DecEq(ret.value.price_with_tax,
                 DecAdd(ret.value.base_price, ret.value.total_tax))
        /\ DecEq(ret.value.base_price, DecimalOfStr(call.product.price))
        /\ ret.value.product_id = call.product.id
        /\ ret.value.product_name = call.product.name
        /\ ret.value.quantity = call.quantity

\* witness: a breakdown has returned for several units of a product with
\* excise and sales tax
C25_Witness ==
    /\ Returned("calculate_product_tax")
    /\ call.quantity > 1
    /\ ~IsZero(ret.value.excise_tax)
    /\ ~IsZero(ret.value.sales_tax)
    /\ DecLess(ret.value.base_price, ret.value.price_with_tax)
    /\ ret.value.product_name = call.product.name

\* ------------------------------------------------------------------------
\* C26: every ruleset of the table has a shape the calculators handle: each
\* cigar rule has type none, per_unit or percentage, and each vape rule is
\* absent or has type percentage, per_ml, dual, or bifurcated with an open
\* and a closed sub-rate; so wherever a vape rule is configured, a vape item
\* with a positive price and a positive volume gets a positive excise.
HandledCigarRule(rule) ==
    ~IsNone(rule) /\ rule.type \in {"none", "per_unit", "percentage"}

HandledVapeRule(rule) ==
    \/ IsNone(rule)
    \/ rule.type \in {"percentage", "per_ml", "dual"}
    \/ rule.type = "bifurcated" /\ {"open", "closed"} \subseteq DOMAIN rule

IsPositive(x) == x.s = 0 /\ ~IsZero(x)

C26_HandledShapes ==
    /\ \A state \in DOMAIN tax_data :
           /\ HandledCigarRule(tax_data[state].cigar_tax)
           /\ HandledVapeRule(tax_data[state].vape_tax)
    /\ (/\ TaxReturned
        /\ tt_args.product_type \in {"vape", "e-cigarette", "vape_open", "vape_closed"}
        /\ ~IsNone(VapeRule)
        /\ tt_args.quantity >= 1
        /\ IsPositive(tt_args.base_price)
        /\ ~IsNone(tt_args.volume_ml)
        /\ IsPositive(tt_args.volume_ml)) =>
           IsPositive(taxes.excise_tax)

\* ------------------------------------------------------------------------
\* C27: while calculate_cart_tax aggregates, after each line item the running
\* total_excise_tax, total_sales_tax and total_tax are the sums of excise_tax,
\* sales_tax and total_tax over the breakdowns appended so far,
\* total_tax = total_excise_tax + total_sales_tax, and the items list is as
\* long as the number of line items processed.

\* the sum of field f over the first n breakdowns of items
RECURSIVE SumOver(_, _, _)
SumOver(items, f, n) ==
    IF n = 0 THEN Dec(0, 0) ELSE DecAdd(SumOver(items, f, n - 1), items[n][f])

C27_RunningSums ==
    \A c \in Callers :
        pc[c] = "loop" =>
            LET summary == cart_tax_summary[c]
                n == Len(summary.items)
            IN  /\ n = idx[c]
                /\ DecEq(summary.total_excise_tax,
                         SumOver(summary.items, "excise_tax", n))
                /\ DecEq(summary.total_sales_tax,
                         SumOver(summary.items, "sales_tax", n))
                /\ DecEq(summary.total_tax, SumOver(summary.items, "total_tax", n))
                /\ DecEq(summary.total_tax,
                         DecAdd(summary.total_excise_tax, summary.total_sales_tax))

\* witness: the loop has processed two line items, the first without excise,
\* and is not yet at the return
C27_Witness ==
    \E c \in Callers :
        /\ pc[c] = "loop"
        /\ idx[c] = 2
        /\ Len(cart_tax_summary[c].items) = 2
        /\ IsZero(cart_tax_summary[c].items[1].excise_tax)
        /\ ~IsZero(cart_tax_summary[c].items[2].excise_tax)
        /\ ~IsZero(cart_tax_summary[c].total_sales_tax)

\* ------------------------------------------------------------------------
\* C28: the subtotal calculate_cart_tax returns is the sum over the line
\* items of unit price * quantity, the cart_subtotal the cart page computes
\* from CartItem.total_price, so grand_total is the amount due for all units
\* plus tax.

\* CartItem.total_price: product.price * quantity
TotalPrice(item) == DecMul(DecimalOfStr(item.product.price), DecOfInt(item.quantity))

\* sum(item.total_price for item in cart_items), over the first n items
RECURSIVE CartSubtotal(_, _)
CartSubtotal(cart, n) ==
    IF n = 0 THEN Dec(0, 0) ELSE DecAdd(CartSubtotal(cart, n - 1), TotalPrice(cart[n]))

C28_SubtotalOfAllUnits ==
    \A r \in Returns :
        LET cart_subtotal == CartSubtotal(r.cart, Len(r.cart))
        IN  /\ DecEq(r.summary.subtotal, cart_subtotal)
            /\ DecEq(r.summary.grand_total, DecAdd(cart_subtotal, r.summary.total_tax))

\* ------------------------------------------------------------------------
\* C29: splitting a line does not change the tax: a cart of one line item of
\* quantity q >= 2 yields the total_excise_tax, total_sales_tax and total_tax
\* of the cart of q line items of quantity 1 of the same product.
SameTax(x, y) ==
    /\ DecEq(x.total_excise_tax, y.total_excise_tax)
    /\ DecEq(x.total_sales_tax, y.total_sales_tax)
    /\ DecEq(x.total_tax, y.total_tax)

\* the line split into one line per unit
Split(item) == [k \in 1..item.quantity |-> [product |-> item.product, quantity |-> 1]]

C29_SplitLine ==
    \A r \in Returns :
        (Len(r.cart) = 1 /\ r.cart[1].quantity >= 2) =>
            SameTax(r.summary, CalculateCartTax(Split(r.cart[1]), r.state))

\* ------------------------------------------------------------------------
\* C30: every product calculate_product_tax classifies vape_closed is taxed
\* with a volume: the number its text gives before ml or milliliter, else 1.0
\* when the text has cartridge or pod, else 2.0 when it has disposable; so
\* under a bifurcated rule with a closed sub-rate of 1 or more the flat amount
\* per unit is charged only when the number in the text is zero.

\* the volume the text of p gives, None when it gives none
VolumeOf(p) ==
    LET text == TextOf(p)
        ml == Starts(text, Ml)
        milliliter == Starts(text, Milliliter)
    IN  IF ml # {} THEN DecimalOfStr(NumberAt(text, Least(ml), Ml))
        ELSE IF milliliter # {}
        THEN DecimalOfStr(NumberAt(text, Least(milliliter), Milliliter))
        ELSE IF Reads(text, <<"c", "a", "r", "t", "r", "i", "d", "g", "e">>)
                \/ Reads(text, <<"p", "o", "d">>)
        THEN Dec(10, 1)
        ELSE IF Reads(text, <<"d", "i", "s", "p", "o", "s", "a", "b", "l", "e">>)
        THEN Dec(20, 1)
        ELSE None

\* the vape rule of the jurisdiction code, None when there is none
VapeRuleOf(code) ==
    IF code \in DOMAIN LoadTaxData THEN LoadTaxData[code].vape_tax ELSE None

FlatClosedRule(rule) ==
    /\ ~IsNone(rule)
    /\ rule.type = "bifurcated"
    /\ "closed" \in DOMAIN rule
    /\ ~DecLess(rule.closed, One)

C30_ClosedHasVolume ==
    (Returned("calculate_product_tax") /\ Classified(call.product) = "vape_closed") =>
        LET volume == VolumeOf(call.product)
            rule == VapeRuleOf(StrOf(call.state))
            price == DecimalOfStr(call.product.price)
        IN  /\ ret.value.product_type = "vape_closed"
            /\ ~IsNone(volume)
            /\ DecEq(ret.value.excise_tax,
                     CalculateVapeTax(StrOf(call.state), "closed", price, volume,
                                      call.quantity))
            /\ FlatClosedRule(rule) =>
                  IF IsZero(volume)
                  THEN /\ Starts(TextOf(call.product), Ml)
                              \cup Starts(TextOf(call.product), Milliliter) # {}
                       /\ DecEq(ret.value.excise_tax,
                                DecMul(rule.closed, DecOfInt(call.quantity)))
                  ELSE DecEq(ret.value.excise_tax,
                             Times3(volume, rule.closed, call.quantity))

\* witness: three disposables with no number in their text have been taxed in
\* Kentucky at 2.0 * 1.50 * 3 = 9.00, not at the flat 1.50 * 3
C30_Witness ==
    /\ Returned("calculate_product_tax")
    /\ call.state = <<"K", "Y">>
    /\ call.quantity = 3
    /\ ret.value.product_type = "vape_closed"
    /\ Starts(TextOf(call.product), Ml) \cup Starts(TextOf(call.product), Milliliter) = {}
    /\ ~Reads(TextOf(call.product), <<"p", "o", "d">>)
    /\ Reads(TextOf(call.product), <<"d", "i", "s", "p", "o", "s", "a", "b", "l", "e">>)
    /\ DecEq(ret.value.excise_tax, Dec(9, 0))

====
